---- MODULE Spec2Model ----
(***************************************************************************)
(* Model of the Car-Part.com parts-search flow of VIN-Automation           *)
(* (carpart_scraper.py) and of the orchestrator loops that drive it        *)
(* (vin_automation.py).                                                    *)
(*                                                                         *)
(* Text is modelled by TLA+ strings, read character by character with      *)
(* SubSeq.  An HTML document is the sequence of its nodes in document      *)
(* order: text nodes, input elements (a record of their attributes),       *)
(* forms (the sequence of their input elements) and tables (a sequence     *)
(* of rows, each a sequence of td/th cells).                               *)
(***************************************************************************)
EXTENDS Integers, Sequences, FiniteSets, TLC

VARIABLES
    entry,          \* the entry point being run
    vehicle,        \* the decoded vehicle: year, make, model
    parts,          \* the list of parts the batch searches
    site,           \* the pages the marketplace may answer each request with
    pc,             \* position of the running function
    i,              \* index of the part being searched (1-based)
    hidden_fields,  \* None, or the mapping extracted from the home page
    request,        \* the HTTP request in flight, or NoRequest
    response,       \* the answer to the last request, None while one is in flight
    data,           \* the payload of the current part's initial submission
    gets,           \* number of GETs of the home page sent so far
    initial_posts,  \* per part index: initial search POSTs sent
    inter_posts,    \* interchange POSTs sent for the part in progress
    parse_calls,    \* calls of _parse_results_table for the part in progress
    all_results,    \* search_parts: the listings collected so far
    search_term,    \* the part name of the search in progress
    result,         \* search_single_part: the summary returned, or None
    rows,           \* the export rows built so far (all_rows in the VIN run)
    vins,           \* main: the list of VINs to process
    vi,             \* main: position of the loop over vins (1-based)
    output_format,  \* main: "csv" or "excel"
    file            \* main: the file the export wrote, or None

vars == <<entry, vehicle, parts, site, pc, i, hidden_fields, request, response,
          data, gets, initial_posts, inter_posts, parse_calls, all_results,
          search_term, result, rows, vins, vi, output_format, file>>

\* Python's None: a value distinct from every string, mapping and number record.
None == [py_none |-> TRUE]
NoRequest == [method |-> "none"]

-----------------------------------------------------------------------------
(* Characters and strings                                                  *)

Digits == {"0", "1", "2", "3", "4", "5", "6", "7", "8", "9"}

Lowers == {"a", "b", "c", "d", "e", "f", "g", "h", "i", "j", "k", "l", "m",
           "n", "o", "p", "q", "r", "s", "t", "u", "v", "w", "x", "y", "z"}

Uppers == {"A", "B", "C", "D", "E", "F", "G", "H", "I", "J", "K", "L", "M",
           "N", "O", "P", "Q", "R", "S", "T", "U", "V", "W", "X", "Y", "Z"}

Letters == Lowers \cup Uppers

Spaces == {" "}

Ch(s, k) == SubSeq(s, k, k)

StartsWithAt(s, k, pre) ==
    /\ k >= 1
    /\ k + Len(pre) - 1 <= Len(s)
    /\ SubSeq(s, k, k + Len(pre) - 1) = pre

\* Python's `sub in s`
Contains(s, sub) == \E k \in 1..(Len(s) - Len(sub) + 1) : StartsWithAt(s, k, sub)

\* The end of the longest run of characters of `set` starting at k (k-1 if none).
RECURSIVE RunEnd(_, _, _)
RunEnd(s, k, set) ==
    IF k <= Len(s) /\ Ch(s, k) \in set THEN RunEnd(s, k + 1, set) ELSE k - 1

\* The start of the longest run of characters of `set` ending at k (k+1 if none).
RECURSIVE RunStart(_, _, _)
RunStart(s, k, set) ==
    IF k >= 1 /\ Ch(s, k) \in set THEN RunStart(s, k - 1, set) ELSE k + 1

\* Python's str.strip()
Strip(s) ==
    LET a == RunEnd(s, 1, Spaces) + 1
        b == RunStart(s, Len(s), Spaces) - 1
    IN  IF a > b THEN "" ELSE SubSeq(s, a, b)

LowerCh(c) ==
    CASE c = "A" -> "a" [] c = "B" -> "b" [] c = "C" -> "c" [] c = "D" -> "d"
      [] c = "E" -> "e" [] c = "F" -> "f" [] c = "G" -> "g" [] c = "H" -> "h"
      [] c = "I" -> "i" [] c = "J" -> "j" [] c = "K" -> "k" [] c = "L" -> "l"
      [] c = "M" -> "m" [] c = "N" -> "n" [] c = "O" -> "o" [] c = "P" -> "p"
      [] c = "Q" -> "q" [] c = "R" -> "r" [] c = "S" -> "s" [] c = "T" -> "t"
      [] c = "U" -> "u" [] c = "V" -> "v" [] c = "W" -> "w" [] c = "X" -> "x"
      [] c = "Y" -> "y" [] c = "Z" -> "z" [] OTHER -> c

\* Python's str.lower()
RECURSIVE Lower(_)
Lower(s) == IF s = "" THEN "" ELSE LowerCh(Ch(s, 1)) \o Lower(SubSeq(s, 2, Len(s)))

\* Python's str.replace(old, ''): every non-overlapping occurrence, left to right.
RECURSIVE Remove(_, _)
Remove(s, old) ==
    IF s = "" THEN ""
    ELSE IF StartsWithAt(s, 1, old) THEN Remove(SubSeq(s, Len(old) + 1, Len(s)), old)
    ELSE Ch(s, 1) \o Remove(SubSeq(s, 2, Len(s)), old)

\* The least element of a non-empty set of integers.
Min(S) == CHOOSE x \in S : \A y \in S : x <= y

\* The greatest element of a non-empty set of integers.
Max(S) == CHOOSE x \in S : \A y \in S : x >= y

\* Python's dict.update: the pairs of `b` laid over those of `a`.
Update(a, b) ==
    [k \in DOMAIN a \cup DOMAIN b |-> IF k \in DOMAIN b THEN b[k] ELSE a[k]]

EmptyDict == [k \in {} |-> ""]

\* Python's dict.get / Tag.get with a default
Get(d, k, default) == IF k \in DOMAIN d THEN d[k] ELSE default

-----------------------------------------------------------------------------
(* HTML documents                                                          *)

Text(s) == [kind |-> "text", s |-> s]
Input(attrs) == [kind |-> "input", attrs |-> attrs]
Form(inputs) == [kind |-> "form", inputs |-> inputs]
Table(trs) == [kind |-> "table", rows |-> trs]
Td(s) == [tag |-> "td", text |-> s]
Th(s) == [tag |-> "th", text |-> s]

\* Tag.get_text(strip=True) of a cell
CellText(c) == Strip(c.text)

RECURSIVE JoinTexts(_)
JoinTexts(ts) == IF ts = <<>> THEN "" ELSE Head(ts) \o JoinTexts(Tail(ts))

RECURSIVE RowsText(_)
RowsText(trs) ==
    IF trs = <<>> THEN ""
    ELSE JoinTexts([k \in 1..Len(Head(trs)) |-> Head(trs)[k].text]) \o RowsText(Tail(trs))

\* soup.get_text(): the text nodes of the document, concatenated in document
\* order.  Attribute values are not part of it.
RECURSIVE GetText(_)
GetText(soup) ==
    IF soup = <<>> THEN ""
    ELSE LET n == Head(soup)
             t == CASE n.kind = "text" -> n.s
                    [] n.kind = "table" -> RowsText(n.rows)
                    [] OTHER -> ""
         IN  t \o GetText(Tail(soup))

\* soup.find('form'): the first form of the document, or None
RECURSIVE FindForm(_)
FindForm(soup) ==
    IF soup = <<>> THEN None
    ELSE IF Head(soup).kind = "form" THEN Head(soup)
    ELSE FindForm(Tail(soup))

\* soup.find_all('input'): the input elements in document order, those inside
\* forms included
RECURSIVE FindInputs(_)
FindInputs(soup) ==
    IF soup = <<>> THEN <<>>
    ELSE LET n == Head(soup)
             here == CASE n.kind = "input" -> <<n.attrs>>
                       [] n.kind = "form" -> n.inputs
                       [] OTHER -> <<>>
         IN  here \o FindInputs(Tail(soup))

IsType(attrs, t) == Get(attrs, "type", "") = t

\* soup.find_all('input', {'type': 'radio'})
FindRadios(soup) == SelectSeq(FindInputs(soup), LAMBDA a : IsType(a, "radio"))

\* soup.find_all('table')
FindTables(soup) == SelectSeq(soup, LAMBDA n : n.kind = "table")

\* The loop shared by lines 98-101 and 120-123: every hidden input of the form
\* that has a non-empty name is stored into `fields`, later ones over earlier.
RECURSIVE StoreHidden(_, _)
StoreHidden(inputs, fields) ==
    IF inputs = <<>> THEN fields
    ELSE LET inp == Head(inputs)
             name == Get(inp, "name", "")
             next == IF IsType(inp, "hidden") /\ name # ""
                     THEN Update(fields, (name :> Get(inp, "value", "")))
                     ELSE fields
         IN  StoreHidden(Tail(inputs), next)

\* _get_homepage_hidden_fields, lines 94-102: after a successful GET
ExtractHiddenFields(soup) ==
    LET form == FindForm(soup)
    IN  IF form # None THEN StoreHidden(form.inputs, EmptyDict) ELSE EmptyDict

-----------------------------------------------------------------------------
(* Search-term normalization                                               *)

_MAKE_ALIASES == ("Mercedes-Benz" :> "Mercedes")

_MERCEDES_MODEL_OVERRIDES ==
    ("ML" :> "ML Series") @@ ("CLK" :> "CLK") @@ ("CLS" :> "CLS") @@
    ("SLK" :> "SLK") @@ ("SLR" :> "SLR") @@ ("SLS" :> "SLS") @@
    ("AMG GT" :> "AMG GT") @@ ("Metris" :> "Metris")

\* re.match(r'^([A-Za-z]+(?:\s+[A-Za-z]+)?)', model): the end of the match, 0
\* when there is none
ModelPrefixEnd(model) ==
    LET e1 == RunEnd(model, 1, Letters)
        e2 == RunEnd(model, e1 + 1, Spaces)
        e3 == RunEnd(model, e2 + 1, Letters)
    IN  IF e1 < 1 THEN 0
        ELSE IF e2 > e1 /\ e3 > e2 THEN e3
        ELSE e1

\* A normalization that reads the state of the batch: the alias and the class
\* rule are applied for the first part only
_normalize_first_part_only(make, model) ==
    LET e == ModelPrefixEnd(model)
        prefix == Strip(SubSeq(model, 1, e))
        suffix == Get(_MERCEDES_MODEL_OVERRIDES, prefix, prefix \o " Class")
    IN  IF i > 1 THEN make \o " " \o model
        ELSE IF make = "Mercedes-Benz" /\ e > 0
        THEN Get(_MAKE_ALIASES, make, make) \o " " \o suffix
        ELSE Get(_MAKE_ALIASES, make, make) \o " " \o model

\* Lines 49-61
_normalize_for_carpart(make, model) ==
    LET norm_make == Get(_MAKE_ALIASES, make, make)
        e == ModelPrefixEnd(model)
        prefix == Strip(SubSeq(model, 1, e))
        suffix == Get(_MERCEDES_MODEL_OVERRIDES, prefix, prefix \o " Class")
    IN  IF make = "Mercedes-Benz" /\ e > 0
        THEN norm_make \o " " \o suffix
        ELSE norm_make \o " " \o model

-----------------------------------------------------------------------------
(* Submission payloads                                                     *)

\* The explicit search fields, lines 289-296 and 366-373
ExplicitFields(year, model_value, part_name, zip) ==
    [userDate |-> year, userModel |-> model_value, userPart |-> part_name,
     userLocation |-> "All States", userPreference |-> "zip", userZip |-> zip]

\* A payload in which the explicit fields are written over the hidden fields
BuildDataExplicitWins(year, make, model, part_name, zip, hidden) ==
    Update(hidden, ExplicitFields(year, _normalize_for_carpart(make, model), part_name, zip))

\* The initial payload: the explicit fields, then data.update(hidden_fields)
BuildData(year, make, model, part_name, zip, hidden) ==
    Update(ExplicitFields(year, _normalize_for_carpart(make, model), part_name, zip), hidden)

\* The loop of lines 126-131: the first radio whose value is non-empty and not
\* "None" is stored under its name ("userInterchange" when it has none).
RECURSIVE SelectRadio(_, _)
SelectRadio(radios, payload) ==
    IF radios = <<>> THEN payload
    ELSE LET r == Head(radios)
             val == Get(r, "value", "")
             name == Get(r, "name", "userInterchange")
         IN  IF val # "" /\ val # "None"
             THEN Update(payload, (name :> val))
             ELSE SelectRadio(Tail(radios), payload)

\* A test that takes a page for an interchange page only when one of its radio
\* inputs has a usable value
IsInterchangePageWithChoice(soup) ==
    /\ FindForm(soup) # None
    /\ \E k \in 1..Len(FindRadios(soup)) : Get(FindRadios(soup)[k], "value", "") \notin {"", "None"}

\* _handle_interchange returns the page unchanged (no second POST) when it has
\* no radio input or no form
IsInterchangePage(soup) == FindRadios(soup) # <<>> /\ FindForm(soup) # None

\* A resubmission that starts from an empty payload instead of the original
InterchangeDataFromScratch(soup, original_data) ==
    SelectRadio(FindRadios(soup), StoreHidden(FindForm(soup).inputs, EmptyDict))

\* The payload _handle_interchange resubmits, lines 118-131
InterchangeData(soup, original_data) ==
    LET form == FindForm(soup)
        base == IF original_data # None /\ DOMAIN original_data # {}
                THEN original_data ELSE EmptyDict
    IN  SelectRadio(FindRadios(soup), StoreHidden(form.inputs, base))

-----------------------------------------------------------------------------
(* Results-table extraction                                                *)

_HEADER_MAP ==
    ("description" :> "description") @@ ("partgrade" :> "grade") @@
    ("stock#" :> "stock_num") @@ ("usprice" :> "price") @@
    ("dealer info" :> "dealer") @@ ("dealerinfo" :> "dealer") @@
    ("distmile" :> "distance_miles")

\* Lines 174-178: the listing key of each recognised header cell -> its column
\* (1-based here), a later column replacing an earlier one of the same key.
RECURSIVE BuildColIdx(_, _, _)
BuildColIdx(header_texts, k, col_idx) ==
    IF k > Len(header_texts) THEN col_idx
    ELSE LET key == Strip(Lower(header_texts[k]))
             next == IF key \in DOMAIN _HEADER_MAP
                     THEN Update(col_idx, (_HEADER_MAP[key] :> k))
                     ELSE col_idx
         IN  BuildColIdx(header_texts, k + 1, next)

\* row.find_all(['td', 'th']) of the first row, get_text(strip=True) of each
HeaderTexts(table) == [k \in 1..Len(table.rows[1]) |-> CellText(table.rows[1][k])]

\* Line 170: the marker test on the joined, lower-cased header
HasMarker(header_texts) ==
    LET header_joined == Lower(JoinTexts(header_texts))
    IN  Contains(header_joined, "yearpartmodel") \/ Contains(header_joined, "usprice")

\* No column test at all
NoColumnsRequired(col_idx) == TRUE

\* A column test satisfied by either of the two columns
HasRequiredColumnsEither(col_idx) == "price" \in DOMAIN col_idx \/ "dealer" \in DOMAIN col_idx

\* Line 181: the columns a results table must map
HasRequiredColumns(col_idx) == "price" \in DOMAIN col_idx /\ "dealer" \in DOMAIN col_idx

\* Lines 162-182: the table is taken as the results table
Qualifies(table) ==
    /\ Len(table.rows) >= 2
    /\ HasMarker(HeaderTexts(table))
    /\ HasRequiredColumns(BuildColIdx(HeaderTexts(table), 1, EmptyDict))

\* re.match(r'^(\d{4})', text)
YearOf(text) ==
    IF Len(text) >= 4 /\ \A k \in 1..4 : Ch(text, k) \in Digits
    THEN SubSeq(text, 1, 4) ELSE ""

\* re.sub(r'Estimated CO2e Savings:\s*\d+kg', '', text)
RECURSIVE RemoveCO2e(_)
RemoveCO2e(s) ==
    IF s = "" THEN ""
    ELSE LET lead == "Estimated CO2e Savings:"
             e1 == RunEnd(s, Len(lead) + 1, Spaces)
             e2 == RunEnd(s, e1 + 1, Digits)
         IN  IF StartsWithAt(s, 1, lead) /\ e2 > e1 /\ StartsWithAt(s, e2 + 1, "kg")
             THEN RemoveCO2e(SubSeq(s, e2 + 3, Len(s)))
             ELSE Ch(s, 1) \o RemoveCO2e(SubSeq(s, 2, Len(s)))

PriceChars == Digits \cup {",", "."}

\* A price field that is always the raw text of the cell
ExtractPriceWholeCell(price_text) == price_text

\* Lines 210-212: re.search(r'(\$[\d,.]+)', price_text), the raw text when
\* nothing matches
ExtractPrice(price_text) ==
    LET starts == {k \in 1..Len(price_text) :
                      Ch(price_text, k) = "$" /\ RunEnd(price_text, k + 1, PriceChars) > k}
    IN  IF starts = {} THEN price_text
        ELSE SubSeq(price_text, Min(starts), RunEnd(price_text, Min(starts) + 1, PriceChars))

VendorSuffixes == <<" - PRP Freight, ARA, CDC", " - PRP Freight, CDC", " - CDC", " - ARA">>

RECURSIVE RemoveAll(_, _)
RemoveAll(s, olds) == IF olds = <<>> THEN s ELSE RemoveAll(Remove(s, Head(olds)), Tail(olds))

\* Lines 216-219: re.match(r'^(.+?)(?:USA-|Can-)', dealer_text), else the first
\* 60 characters; then the known suffix annotations are removed
ExtractVendor(dealer_text) ==
    LET marks == {k \in 2..Len(dealer_text) :
                     StartsWithAt(dealer_text, k, "USA-") \/ StartsWithAt(dealer_text, k, "Can-")}
        vendor == IF marks # {}
                  THEN Strip(SubSeq(dealer_text, 1, Min(marks) - 1))
                  ELSE SubSeq(dealer_text, 1, IF Len(dealer_text) < 60 THEN Len(dealer_text) ELSE 60)
    IN  RemoveAll(vendor, VendorSuffixes)

WordChars == Letters \cup Digits \cup {"_"}

\* Lines 221-222: re.search(r'(?:USA|Can)-(\w+)\(([^)]+)\)', dealer_text)
ExtractLocation(dealer_text) ==
    LET n == Len(dealer_text)
        CodeEnd(k) == RunEnd(dealer_text, k + 4, WordChars)
        Close(k) == Min({c \in (CodeEnd(k) + 2)..(n + 1) : c = n + 1 \/ Ch(dealer_text, c) = ")"})
        Matches(k) ==
            /\ StartsWithAt(dealer_text, k, "USA-") \/ StartsWithAt(dealer_text, k, "Can-")
            /\ CodeEnd(k) >= k + 4
            /\ StartsWithAt(dealer_text, CodeEnd(k) + 1, "(")
            /\ Close(k) <= n
            /\ Close(k) > CodeEnd(k) + 2
        starts == {k \in 1..n : Matches(k)}
    IN  IF starts = {} THEN ""
        ELSE LET k == Min(starts)
             IN  SubSeq(dealer_text, CodeEnd(k) + 2, Close(k) - 1) \o ", "
                     \o SubSeq(dealer_text, k + 4, CodeEnd(k))

\* Lines 224-225: re.search(r'(\d[\d\-]{9,})', dealer_text)
ExtractPhone(dealer_text) ==
    LET PhoneEnd(k) == RunEnd(dealer_text, k + 1, Digits \cup {"-"})
        starts == {k \in 1..Len(dealer_text) :
                      Ch(dealer_text, k) \in Digits /\ PhoneEnd(k) - k >= 9}
    IN  IF starts = {} THEN "" ELSE SubSeq(dealer_text, Min(starts), PhoneEnd(Min(starts)))

\* Lines 190-241: the listing of one data row
ParseRow(cell_texts, col_idx, search_part) ==
    LET _col(key) == IF key \in DOMAIN col_idx /\ col_idx[key] <= Len(cell_texts)
                     THEN cell_texts[col_idx[key]] ELSE ""
    IN  [part_name |-> search_part,
         year |-> YearOf(cell_texts[1]),
         description |-> Strip(RemoveCO2e(_col("description"))),
         grade |-> _col("grade"),
         stock_num |-> _col("stock_num"),
         price |-> ExtractPrice(_col("price")),
         vendor |-> ExtractVendor(_col("dealer")),
         location |-> ExtractLocation(_col("dealer")),
         phone |-> ExtractPhone(_col("dealer")),
         distance_miles |-> _col("distance_miles")]

\* row.find_all('td')
TdCells(row) == SelectSeq(row, LAMBDA c : c.tag = "td")

\* A row loop that takes only the rows with exactly one td cell per header cell
RECURSIVE ParseRowsExactWidth(_, _, _, _)
ParseRowsExactWidth(trs, header_texts, col_idx, search_part) ==
    IF trs = <<>> THEN <<>>
    ELSE LET cells == TdCells(Head(trs))
             cell_texts == [k \in 1..Len(cells) |-> CellText(cells[k])]
             rest == ParseRowsExactWidth(Tail(trs), header_texts, col_idx, search_part)
         IN  IF Len(cells) # Len(header_texts) THEN rest
             ELSE <<ParseRow(cell_texts, col_idx, search_part)>> \o rest

\* Lines 185-241: the listings of the data rows of the results table, in row
\* order; a row with fewer td cells than the header has cells is skipped
RECURSIVE ParseRows(_, _, _, _)
ParseRows(trs, header_texts, col_idx, search_part) ==
    IF trs = <<>> THEN <<>>
    ELSE LET cells == TdCells(Head(trs))
             cell_texts == [k \in 1..Len(cells) |-> CellText(cells[k])]
             rest == ParseRows(Tail(trs), header_texts, col_idx, search_part)
         IN  IF Len(cells) < Len(header_texts) THEN rest
             ELSE <<ParseRow(cell_texts, col_idx, search_part)>> \o rest

\* A loop over the tables that is not left: the rows of every qualifying table
RECURSIVE ParseEveryTable(_, _)
ParseEveryTable(tables, search_part) ==
    IF tables = <<>> THEN <<>>
    ELSE LET table == Head(tables)
             header_texts == HeaderTexts(table)
             rest == ParseEveryTable(Tail(tables), search_part)
         IN  IF Qualifies(table)
             THEN ParseRows(Tail(table.rows), header_texts,
                            BuildColIdx(header_texts, 1, EmptyDict), search_part) \o rest
             ELSE rest

\* The loop of line 161 over the tables, left at the first qualifying one
RECURSIVE ParseTables(_, _)
ParseTables(tables, search_part) ==
    IF tables = <<>> THEN <<>>
    ELSE LET table == Head(tables)
             header_texts == HeaderTexts(table)
         IN  IF Qualifies(table)
             THEN ParseRows(Tail(table.rows), header_texts,
                            BuildColIdx(header_texts, 1, EmptyDict), search_part)
             ELSE ParseTables(Tail(tables), search_part)

_parse_results_table(soup, search_part) == ParseTables(FindTables(soup), search_part)

-----------------------------------------------------------------------------
(* Python floats                                                           *)

\* A float is an IEEE 754 double.  It is held exactly, as the digits to the
\* base 2^LimbBits (least significant first, no zero digit at the top) of the
\* multiple of 2^-(FracLimbs * LimbBits) it is equal to: every double from
\* 2^-22 up to the largest price is such a multiple, and so is 0.0.  Every
\* operation rounds its exact result to Precision significant binary digits,
\* ties to the even neighbour.
Precision == 53

LimbBits == 15

FracLimbs == 5

Base == 2 ^ LimbBits

RECURSIVE NatLimbs(_)
NatLimbs(n) == IF n = 0 THEN <<>> ELSE <<n % Base>> \o NatLimbs(n \div Base)

RECURSIVE LimbsNat(_)
LimbsNat(b) == IF b = <<>> THEN 0 ELSE Head(b) + Base * LimbsNat(Tail(b))

RECURSIVE Canonical(_)
Canonical(b) ==
    IF b = <<>> \/ b[Len(b)] # 0 THEN b ELSE Canonical(SubSeq(b, 1, Len(b) - 1))

Zeros(n) == [k \in 1..n |-> 0]

RECURSIVE AddLimbs(_, _, _)
AddLimbs(a, b, carry) ==
    IF a = <<>> /\ b = <<>> THEN NatLimbs(carry)
    ELSE LET t == (IF a = <<>> THEN 0 ELSE Head(a)) + (IF b = <<>> THEN 0 ELSE Head(b)) + carry
         IN  <<t % Base>> \o AddLimbs(IF a = <<>> THEN a ELSE Tail(a),
                                      IF b = <<>> THEN b ELSE Tail(b), t \div Base)

\* b times the small number m, plus carry
RECURSIVE MulLimbs(_, _, _)
MulLimbs(b, m, carry) ==
    IF b = <<>> THEN NatLimbs(carry)
    ELSE LET t == Head(b) * m + carry
         IN  <<t % Base>> \o MulLimbs(Tail(b), m, t \div Base)

\* Quotient (as many digits as b has) and remainder of b by the small number d
RECURSIVE DivLimbs(_, _)
DivLimbs(b, d) ==
    IF b = <<>> THEN [q |-> <<>>, r |-> 0]
    ELSE LET hi == DivLimbs(Tail(b), d)
             cur == Base * hi.r + Head(b)
         IN  [q |-> <<cur \div d>> \o hi.q, r |-> cur % d]

\* The number of binary digits of b
BitLength(b) ==
    IF b = <<>> THEN 0
    ELSE LimbBits * (Len(b) - 1)
            + CHOOSE k \in 1..LimbBits : 2 ^ (k - 1) <= b[Len(b)] /\ b[Len(b)] < 2 ^ k

\* The double nearest to the number whose digits are b, followed below the
\* last digit by something not zero when `inexact`
RoundToPrecision(b, inexact) ==
    IF BitLength(b) <= Precision THEN b
    ELSE LET drop == BitLength(b) - Precision
             w == drop \div LimbBits
             r == drop % LimbBits
             d == DivLimbs(SubSeq(b, w + 1, Len(b)), 2 ^ r)
             kept == Canonical(d.q)
             half == IF r > 0 THEN d.r \div 2 ^ (r - 1) = 1
                     ELSE b[w] \div 2 ^ (LimbBits - 1) = 1
             rest == \/ inexact
                     \/ IF r > 0 THEN d.r % 2 ^ (r - 1) # 0 \/ \E k \in 1..w : b[k] # 0
                        ELSE b[w] % 2 ^ (LimbBits - 1) # 0 \/ \E k \in 1..(w - 1) : b[k] # 0
             up == half /\ (rest \/ kept[1] % 2 = 1)
         IN  Zeros(w) \o MulLimbs(IF up THEN AddLimbs(kept, <<1>>, 0) ELSE kept, 2 ^ r, 0)

\* The double nearest to n hundredths: float() of a decimal literal
FloatOfHundredths(n) ==
    LET d == DivLimbs(Zeros(FracLimbs) \o NatLimbs(n), 100)
    IN  [limbs |-> RoundToPrecision(Canonical(d.q), d.r # 0)]

FloatZero == [limbs |-> <<>>]

\* x + y
FloatAdd(x, y) == [limbs |-> RoundToPrecision(AddLimbs(x.limbs, y.limbs, 0), FALSE)]

\* x / n for an int n
FloatDiv(x, n) ==
    LET d == DivLimbs(x.limbs, n)
    IN  [limbs |-> RoundToPrecision(Canonical(d.q), d.r # 0)]

\* x < y
FloatLess(x, y) ==
    \/ Len(x.limbs) < Len(y.limbs)
    \/ /\ Len(x.limbs) = Len(y.limbs)
       /\ \E k \in 1..Len(x.limbs) :
             /\ x.limbs[k] < y.limbs[k]
             /\ \A j \in (k + 1)..Len(x.limbs) : x.limbs[j] = y.limbs[j]

\* The greatest of a non-empty list of floats
FloatMax(xs) ==
    CHOOSE x \in {xs[k] : k \in 1..Len(xs)} : \A k \in 1..Len(xs) : ~FloatLess(x, xs[k])

\* min(xs) of a non-empty list of floats
FloatMin(xs) ==
    CHOOSE x \in {xs[k] : k \in 1..Len(xs)} : \A k \in 1..Len(xs) : ~FloatLess(xs[k], x)

\* The hundredths in f"{x:.2f}": x to the nearest hundredth, ties to even
Cents(x) ==
    LET scaled == MulLimbs(x.limbs, 100, 0)
        whole == LimbsNat(SubSeq(scaled, FracLimbs + 1, Len(scaled)))
        top == IF Len(scaled) >= FracLimbs THEN scaled[FracLimbs] ELSE 0
        half == top \div 2 ^ (LimbBits - 1) = 1
        rest == \/ top % 2 ^ (LimbBits - 1) # 0
                \/ \E k \in 1..(FracLimbs - 1) : k <= Len(scaled) /\ scaled[k] # 0
    IN  IF half /\ (rest \/ whole % 2 = 1) THEN whole + 1 ELSE whole

-----------------------------------------------------------------------------
(* Deduplication and price statistics                                      *)

ListingKey(listing) == <<Get(listing, "vendor", ""), Get(listing, "stock_num", "")>>

\* Lines 315-321: the listings whose (vendor, stock#) was not seen before, in
\* their original order
RECURSIVE DedupFrom(_, _)
DedupFrom(listings, seen) ==
    IF listings = <<>> THEN <<>>
    ELSE LET key == ListingKey(Head(listings))
         IN  IF key \notin seen
             THEN <<Head(listings)>> \o DedupFrom(Tail(listings), seen \cup {key})
             ELSE DedupFrom(Tail(listings), seen)

\* A deduplication whose seen-set forgets a key when it drops a listing
RECURSIVE DedupForgetting(_, _)
DedupForgetting(listings, seen) ==
    IF listings = <<>> THEN <<>>
    ELSE LET key == ListingKey(Head(listings))
         IN  IF key \notin seen
             THEN <<Head(listings)>> \o DedupForgetting(Tail(listings), seen \cup {key})
             ELSE DedupForgetting(Tail(listings), seen \ {key})

DeduplicateForgetting(listings) == DedupForgetting(listings, {})

\* A deduplication that keeps the last listing of each key
RECURSIVE DeduplicateKeepLast(_)
DeduplicateKeepLast(listings) ==
    IF listings = <<>> THEN <<>>
    ELSE IF \E k \in 2..Len(listings) : ListingKey(listings[k]) = ListingKey(Head(listings))
    THEN DeduplicateKeepLast(Tail(listings))
    ELSE <<Head(listings)>> \o DeduplicateKeepLast(Tail(listings))

Deduplicate(listings) == DedupFrom(listings, {})

RECURSIVE DigitsValue(_)
DigitsValue(s) ==
    IF s = "" THEN 0
    ELSE 10 * DigitsValue(SubSeq(s, 1, Len(s) - 1))
         + CHOOSE d \in 0..9 : ToString(d) = Ch(s, Len(s))

\* Python's float(s) for a string of digits and dots: the double nearest to
\* the decimal, or None when float raises ValueError (no digit, or more than
\* one dot).  Decimals beyond the second are outside the model.
ParseFloat(s) ==
    LET dots == {k \in 1..Len(s) : Ch(s, k) = "."}
        dot == IF dots = {} THEN Len(s) + 1 ELSE Min(dots)
        whole == SubSeq(s, 1, dot - 1)
        frac == IF dots = {} THEN "" ELSE SubSeq(s \o "00", dot + 1, dot + 2)
    IN  IF Cardinality(dots) > 1 \/ Len(s) - Cardinality(dots) = 0 THEN None
        ELSE FloatOfHundredths(100 * DigitsValue(whole) + DigitsValue(frac))

\* Lines 326-332: the number parsed from one listing's price text, or None
ListingPrice(listing) ==
    LET text == Remove(Get(listing, "price", ""), "$")
        starts == {k \in 1..Len(text) : Ch(text, k) \in PriceChars}
    IN  IF starts = {} THEN None
        ELSE ParseFloat(Remove(SubSeq(text, Min(starts), RunEnd(text, Min(starts), PriceChars)), ","))

\* Lines 324-332: the prices of the listings that have one, in order
RECURSIVE ExtractPrices(_)
ExtractPrices(listings) ==
    IF listings = <<>> THEN <<>>
    ELSE LET p == ListingPrice(Head(listings))
         IN  (IF p = None THEN <<>> ELSE <<p>>) \o ExtractPrices(Tail(listings))

\* sum(prices): the floats are added from left to right, each addition
\* rounded.  (A build whose sum() compensates the rounding errors returns the
\* same float for up to three equal prices.)
RECURSIVE Sum(_)
Sum(xs) ==
    IF xs = <<>> THEN FloatZero
    ELSE FloatAdd(Sum(SubSeq(xs, 1, Len(xs) - 1)), xs[Len(xs)])

EmptySummary(part_name) ==
    [part_name |-> part_name, avg_price |-> None, low_price |-> None, listing_count |-> 0]

\* A summary that counts the listings with a price only
SummarizeCountingPriced(part_name, listings) ==
    LET unique_listings == Deduplicate(listings)
        prices == ExtractPrices(unique_listings)
    IN  [part_name |-> part_name,
         avg_price |-> IF prices # <<>> THEN FloatDiv(Sum(prices), Len(prices)) ELSE None,
         low_price |-> IF prices # <<>> THEN FloatMin(prices) ELSE None,
         listing_count |-> Len(prices)]

\* A summary whose average divides by the number of listings
SummarizeDividingByCount(part_name, listings) ==
    LET unique_listings == Deduplicate(listings)
        prices == ExtractPrices(unique_listings)
    IN  [part_name |-> part_name,
         avg_price |-> IF prices # <<>> THEN FloatDiv(Sum(prices), Len(unique_listings)) ELSE None,
         low_price |-> IF prices # <<>> THEN FloatMin(prices) ELSE None,
         listing_count |-> Len(unique_listings)]

\* Lines 314-342: the summary search_single_part returns for the listings
\* extracted from the results page
Summarize(part_name, listings) ==
    LET unique_listings == Deduplicate(listings)
        prices == ExtractPrices(unique_listings)
    IN  [part_name |-> part_name,
         avg_price |-> IF prices # <<>> THEN FloatDiv(Sum(prices), Len(prices)) ELSE None,
         low_price |-> IF prices # <<>> THEN FloatMin(prices) ELSE None,
         listing_count |-> Len(unique_listings)]

-----------------------------------------------------------------------------
(* Search-term cleaning of the --unpriced workflow                         *)

\* term.split(';')[0]
BeforeSemicolon(term) ==
    LET semis == {k \in 1..Len(term) : Ch(term, k) = ";"}
    IN  IF semis = {} THEN term ELSE SubSeq(term, 1, Min(semis) - 1)

\* re.sub(r',\s*ID\s+\S+.*$', '', term)
StripIdSuffix(term) ==
    LET IdAt(k) == RunEnd(term, k + 1, Spaces) + 1
        Matches(k) ==
            /\ Ch(term, k) = ","
            /\ StartsWithAt(term, IdAt(k), "ID")
            /\ RunEnd(term, IdAt(k) + 2, Spaces) >= IdAt(k) + 2
            /\ RunEnd(term, IdAt(k) + 2, Spaces) < Len(term)
        starts == {k \in 1..Len(term) : Matches(k)}
    IN  IF starts = {} THEN term ELSE SubSeq(term, 1, Min(starts) - 1)

\* re.sub(r'\s+\d{3,}\s*$', '', term)
StripTrailingCode(term) ==
    LET d_end == RunStart(term, Len(term), Spaces) - 1
        d_start == RunStart(term, d_end, Digits)
        s_start == RunStart(term, d_start - 1, Spaces)
    IN  IF d_end - d_start + 1 >= 3 /\ s_start <= d_start - 1
        THEN SubSeq(term, 1, s_start - 1) ELSE term

\* str.rstrip(',')
RStripCommas(term) == SubSeq(term, 1, RunStart(term, Len(term), {","}) - 1)

_clean_search_term(term) ==
    Strip(RStripCommas(Strip(StripTrailingCode(StripIdSuffix(BeforeSemicolon(term))))))

-----------------------------------------------------------------------------
(* The inputs of a run and the pages the marketplace may answer with       *)

\* Longest parts list of a batch
MaxParts == 2

BASE_URL == "https://www.car-part.com"
SEARCH_URL == BASE_URL \o "/cgi-bin/search.cgi"

DEFAULT_PARTS ==
    <<"Engine", "Transmission", "Hood", "Fender", "Headlight Assembly", "Tail Light",
      "Radiator", "Front Bumper Assembly (includes cover)",
      "Rear Bumper Assembly (includes cover)",
      "Front Door (see also Door Shell, Front)", "A/C Compressor">>

\* The zip code read from config.ini
ConfigZip == "14201"

Vehicles ==
    {[year |-> "2015", make |-> "Toyota", model |-> "Camry"],
     [year |-> "2019", make |-> "Mercedes-Benz", model |-> "GLE 450"]}

\* Un-priced parts as mvr_reader returns them
MvrPart(category, name) ==
    [category |-> category, part_name |-> name, description |-> name,
     stock_num |-> "F1001", hollander |-> "400-1", grade |-> "A", location |-> "R1"]

MvrParts ==
    <<MvrPart("Fuel Tank 59452", "Tank"),
      MvrPart("Heat/AC Controller rear, ID 4G0820043", "Controller"),
      MvrPart("", ""),
      MvrPart("", "Chassis Brain Box; on-board computer")>>

Entries == {"search_parts", "search_single_part", "unpriced"}

PartsOf(e) ==
    CASE e = "search_parts" -> {SubSeq(DEFAULT_PARTS, 1, n) : n \in 0..MaxParts}
      [] e = "search_single_part" -> {<<DEFAULT_PARTS[n]>> : n \in 1..MaxParts}
      [] e = "unpriced" ->
            {SubSeq(ps, 1, n) : ps \in {MvrParts, SubSeq(MvrParts, 3, 4) \o SubSeq(MvrParts, 1, 2)},
                                n \in 1..MaxParts}

Hidden(name, value) == [type |-> "hidden", name |-> name, value |-> value]
Radio(name, value) == [type |-> "radio", name |-> name, value |-> value]

\* Home pages: without a form, with a form without inputs, with hidden inputs
\* (one unnamed, one without value), with a hidden input named like an explicit
\* search field, and with two forms
HomePages ==
    {<<Text("Car-Part.com")>>,
     <<Text("Car-Part.com"), Form(<<>>)>>,
     <<Form(<<Hidden("userSession", "abc"), [type |-> "hidden", value |-> "x"],
              [type |-> "hidden", name |-> "dbModel"],
              [type |-> "text", name |-> "userZip", value |-> ""]>>)>>,
     <<Form(<<Hidden("userZip", "00000"), Hidden("token", "t1")>>)>>,
     <<Form(<<Hidden("token", "t1")>>), Form(<<Hidden("other", "1")>>)>>}

Header7 ==
    <<Td("YearPartModel"), Td("Description"), Td("PartGrade"), Td("Stock#"),
      Td("USPrice"), Td("Dealer Info"), Td("Distmile")>>

Row(c1, c2, c3, c4, c5, c6, c7) == <<Td(c1), Td(c2), Td(c3), Td(c4), Td(c5), Td(c6), Td(c7)>>

RowA == Row("2017Fuel TankAudi A6", "some text", "A", "S123", "$125actual",
            "ABC Auto USA-NY(Buffalo) - CDC 716-555-0100", "12")
RowADup == Row("2017Fuel TankAudi A6", "other text", "B", "S123", "$300",
               "ABC Auto - CDC USA-NY(Buffalo) 716-555-0100", "12")
RowCall == Row("2016Fuel TankAudi A6", "Estimated CO2e Savings: 12kg", "A", "K9", "$Call",
               "Yard Two Can-ON(Toronto) 416-555-0199", "140")
RowC == Row("Fuel TankAudi A6", "", "C", "S123", " $1,080.50 ",
            "Third Yard", "7")

CallTable == Table(<<Header7, RowCall>>)

ResultTables ==
    {Table(<<Header7, RowA, RowCall, RowADup>>),
     CallTable,
     Table(<<Header7, RowC, RowADup, RowA>>)}

\* Pages answering a search POST: results pages, a page without any table and
\* a results page whose only mention of INVALID is an attribute value
ResultPages ==
    {<<Text("Search results"), t>> : t \in ResultTables}
        \cup {<<Text("No parts found")>>,
              <<Form(<<Hidden("status", "INVALID")>>), CallTable>>}

\* Pages whose text holds the marker, one of them with radios and a table
InvalidPages ==
    {<<Text("INVALID year/model")>>,
     <<Text("Model is INVALID."),
       Form(<<Hidden("dbModel", "X1"), Radio("userInterchange", "12345")>>), CallTable>>}

\* Pages with radio inputs: in a form with hidden fields, with no usable
\* value, outside any form, and without a name
InterchangePages ==
    {<<Form(<<Hidden("dbModel", "X1"), Radio("userInterchange", "None"),
              Radio("userInterchange", "12345"), Radio("userInterchange", "67890")>>)>>,
     <<Form(<<Hidden("userPart", "P9"), Radio("dummy", "None"),
              [type |-> "radio", name |-> "dummy"]>>), CallTable>>,
     <<Text("Select"), Input(Radio("userInterchange", "12345")), CallTable>>,
     <<Input([type |-> "radio", value |-> "777"]), Form(<<>>)>>}

\* Longest run of radio inputs of a generated interchange page
MaxRadios == 2

\* Most data rows of a generated results table
MaxRows == 3

\* The sequences over `pool` of length lo..hi
SeqsOf(pool, lo, hi) == UNION {[1..n -> pool] : n \in lo..hi}

RadioPool ==
    {Radio("userInterchange", "None"), Radio("userInterchange", "12345"),
     [type |-> "radio", value |-> "777"], [type |-> "radio", name |-> "userDate"]}

HiddenRuns ==
    {<<>>,
     <<Hidden("dbModel", "X1")>>,
     <<Hidden("userPart", "P9"), [type |-> "hidden", value |-> "zz"], Hidden("userPart", "P10")>>}

\* Interchange-selection pages: every run of radios with every run of hidden
\* fields, the radios inside the form, before it, or on a page without form
InterchangeFamily ==
    UNION {{<<Form(h \o r)>>,
            [k \in 1..Len(r) |-> Input(r[k])] \o <<Form(h)>>,
            [k \in 1..Len(r) |-> Input(r[k])]} :
               h \in HiddenRuns, r \in SeqsOf(RadioPool, 1, MaxRadios)}

RowPool == {RowA, RowADup, RowCall, RowC}

\* Results pages: every run of data rows under the 7-column header
TableFamily == {<<Table(<<Header7>> \o r)>> : r \in SeqsOf(RowPool, 0, MaxRows)}

\* Three yards asking the same price for the part
RowY1 == Row("2018HoodToyota Camry", "", "A", "H1", "$50.05", "Yard One USA-NY(Buffalo) 716-555-0101", "5")
RowY2 == Row("2018HoodToyota Camry", "", "A", "H2", "$50.05", "Yard Two Can-ON(Toronto) 416-555-0199", "90")
RowY3 == Row("2018HoodToyota Camry", "", "B", "H3", "$50.05", "Yard Three", "300")

\* A price cell without the dollar sign
RowBare == Row("2018HoodToyota Camry", "", "C", "H4", "75.5", "Yard Four", "12")

PricePool == {RowY1, RowY2, RowY3, RowCall, RowA}

\* Results pages: every run of priced and unpriced rows
PriceFamily == {<<Table(<<Header7>> \o r)>> : r \in SeqsOf(PricePool, 0, MaxRows)}

\* Results pages: every run of rows out of the shapes of a price cell
PriceCellFamily ==
    {<<Table(<<Header7>> \o r)>> : r \in SeqsOf({RowA, RowCall, RowBare, RowC}, 0, MaxRows)}

\* Most tables of a generated results page
MaxTables == 2

\* A header of th cells, in other letter case and spacing
HeaderTh ==
    <<Th("YEARPARTMODEL"), Th(" Description "), Th("PartGrade"), Th("Stock#"),
      Th("USPRICE"), Th("DealerInfo"), Th("DistMile")>>

\* A page-layout table: two rows, nothing of a results header
LayoutTable == Table(<<<<Td("Find parts"), Td("Quote")>>, <<Td("Search"), Td("$10")>>>>)

\* A results header with no row under it
HeaderOnlyTable == Table(<<Header7>>)

\* The marker in the header, but neither the price nor the dealer column
MarkerTable ==
    Table(<<<<Td("YearPartModel"), Td("Description")>>,
            <<Td("2017Fuel TankAudi A6"), Td("some text")>>>>)

\* The marker and the price column, but no dealer column
PriceOnlyTable ==
    Table(<<<<Td("YearPartModel"), Td("USPrice")>>,
            <<Td("2017Fuel TankAudi A6"), Td("$10")>>>>)

\* The marker and the dealer column, but no price column
DealerOnlyTable ==
    Table(<<<<Td("YearPartModel"), Td("Dealer Info")>>,
            <<Td("2017Fuel TankAudi A6"), Td("ABC Auto USA-NY(Buffalo) 716-555-0100")>>>>)

\* A results table none of whose rows has a td cell for every header cell
NoRowsTable ==
    Table(<<Header7, <<Td("No parts found")>>,
            [k \in 1..7 |-> Th("more")],
            SubSeq(RowA, 1, 6)>>)

\* A results table with a short row between full ones and a row with one
\* cell more than the header
MixedTable ==
    Table(<<Header7, RowA, <<Td("2017"), Td("note")>>, RowCall \o <<Td("extra")>>, RowADup>>)

UpperTable == Table(<<HeaderTh, RowC, <<Th("2016")>> \o RowY1>>)

TablePool ==
    {LayoutTable, HeaderOnlyTable, MarkerTable, PriceOnlyTable, DealerOnlyTable,
     NoRowsTable, MixedTable, UpperTable}

\* Results pages: every run of tables
PageFamily == {<<Text("Search results")>> \o ts : ts \in SeqsOf(TablePool, 0, MaxTables)}

\* A page whose tables all fail one of the tests of a results table
UnqualifiedPage == <<Text("No parts found"), LayoutTable, MarkerTable, HeaderOnlyTable>>

SearchPages == ResultPages \cup InvalidPages \cup InterchangePages \cup {UnqualifiedPage}

Failures == {"timeout", "http_error"}

Failed(error) == [ok |-> FALSE, error |-> error]
Answered(page) == [ok |-> TRUE, page |-> page]

\* The answers to the GET of the home page, to an initial search POST and to
\* an interchange POST
HomeResponses == {Failed(f) : f \in Failures} \cup {Answered(p) : p \in site.home}
SearchResponses == {Failed(f) : f \in Failures} \cup {Answered(p) : p \in site.search}
InterchangeResponses == {Failed(f) : f \in Failures} \cup {Answered(p) : p \in site.interchange}

-----------------------------------------------------------------------------
(* HTTP                                                                    *)

Get_(url) == [method |-> "GET", url |-> url]
Post(url, payload, kind) == [method |-> "POST", url |-> url, data |-> payload, kind |-> kind]

\* session.post raising (timeout, connection error) or resp.raise_for_status()
\* raising (non-success status)
Raises(resp) == ~resp.ok

\* A bootstrap that also fails on a home page without a form
HomepageRaisesOrNoForm(resp) == ~resp.ok \/ FindForm(resp.page) = None

\* Lines 92-93: the same for the GET of the home page
HomepageRaises(resp) == ~resp.ok

\* Lines 308 and 387: 'INVALID' in soup.get_text()
IsInvalid(soup) == Contains(GetText(soup), "INVALID")

\* A test that also fetches the home page for an empty mapping
NeedsHomepageWhenEmpty(fields) == fields = None \/ DOMAIN fields = {}

\* Line 284: search_single_part fetches the home page itself
NeedsHomepage(fields) == fields = None

Inc(f, k) == [f EXCEPT ![k] = @ + 1]

inputs == <<entry, vehicle, parts, site, vins, vi, output_format, file>>

\* A bootstrap that catches the exception and goes on without hidden fields
BootstrappedSwallowing(then) ==
    /\ \E resp \in HomeResponses :
          /\ response' = resp
          /\ hidden_fields' = IF HomepageRaises(resp) THEN EmptyDict
                              ELSE ExtractHiddenFields(resp.page)
          /\ pc' = then
    /\ request' = NoRequest
    /\ UNCHANGED <<inputs, i, data, gets, initial_posts, inter_posts,
                   parse_calls, all_results, search_term, result, rows>>

\* Lines 92-102 after the GET was sent: the exception of a failed fetch leaves
\* the caller, otherwise the hidden fields are kept and the caller goes on
Bootstrapped(then) ==
    /\ \E resp \in HomeResponses :
          /\ response' = resp
          /\ IF HomepageRaises(resp)
             THEN pc' = "raised" /\ UNCHANGED hidden_fields
             ELSE hidden_fields' = ExtractHiddenFields(resp.page) /\ pc' = then
    /\ request' = NoRequest
    /\ UNCHANGED <<inputs, i, data, gets, initial_posts, inter_posts,
                   parse_calls, all_results, search_term, result, rows>>

\* The GET of line 92 is sent
FetchHomepage(then) ==
    /\ request' = Get_(BASE_URL)
    /\ response' = None
    /\ gets' = gets + 1
    /\ pc' = then
    /\ UNCHANGED <<inputs, i, hidden_fields, data, initial_posts, inter_posts,
                   parse_calls, all_results, search_term, result, rows>>

\* Lines 289-300 and 366-377: the payload is built and posted
Submit(term, then) ==
    /\ search_term' = term
    /\ data' = BuildData(vehicle.year, vehicle.make, vehicle.model, term,
                         ConfigZip, hidden_fields)
    /\ request' = Post(SEARCH_URL, data', "initial")
    /\ response' = None
    /\ initial_posts' = Inc(initial_posts, i)
    /\ inter_posts' = 0
    /\ parse_calls' = 0
    /\ pc' = then
    /\ UNCHANGED <<inputs, i, hidden_fields, gets, all_results, result, rows>>

\* Lines 118-133: _handle_interchange posts the page's selection
Resubmit(soup, then) ==
    /\ request' = Post(SEARCH_URL, InterchangeData(soup, data), "interchange")
    /\ inter_posts' = inter_posts + 1
    /\ pc' = then

\* An exception leaves the running function
Abort == pc' = "raised" /\ request' = NoRequest

-----------------------------------------------------------------------------
(* search_parts                                                            *)

\* Lines 353-360: the session is created and the home page requested
SP_Start == entry = "search_parts" /\ pc = "start" /\ FetchHomepage("sp_await_home")

\* Lines 360-363: the answer to the GET
SP_Home == pc = "sp_await_home" /\ Bootstrapped("sp_loop")

\* Lines 365-377
SP_Submit == pc = "sp_loop" /\ i <= Len(parts) /\ Submit(parts[i], "sp_await_initial")

\* Lines 381 and 388: continue with the next part
SP_Continue ==
    /\ i' = i + 1 /\ pc' = "sp_loop" /\ request' = NoRequest
    /\ UNCHANGED <<inter_posts, parse_calls, all_results>>

\* A collection that raises when the page gives no listing
SP_CollectOrRaise(soup) ==
    /\ parse_calls' = parse_calls + 1
    /\ IF _parse_results_table(soup, search_term) = <<>>
       THEN Abort /\ UNCHANGED <<i, all_results>>
       ELSE /\ all_results' = all_results \o _parse_results_table(soup, search_term)
            /\ i' = i + 1 /\ pc' = "sp_loop" /\ request' = NoRequest

\* A collection that keeps the first listing of each (vendor, stock_num)
SP_CollectDeduplicated(soup) ==
    /\ parse_calls' = parse_calls + 1
    /\ all_results' = all_results \o Deduplicate(_parse_results_table(soup, search_term))
    /\ i' = i + 1 /\ pc' = "sp_loop" /\ request' = NoRequest

\* Lines 393-394: the listings of the page are added to the results
SP_Collect(soup) ==
    /\ parse_calls' = parse_calls + 1
    /\ all_results' = all_results \o _parse_results_table(soup, search_term)
    /\ i' = i + 1 /\ pc' = "sp_loop" /\ request' = NoRequest

\* A handler without the try/except around the initial POST
SP_OnInitialUncaught(resp) ==
    IF Raises(resp) THEN Abort /\ UNCHANGED <<i, inter_posts, parse_calls, all_results>>
    ELSE IF IsInvalid(resp.page) THEN SP_Continue
    ELSE IF IsInterchangePage(resp.page)
    THEN Resubmit(resp.page, "sp_await_interchange") /\ UNCHANGED <<i, parse_calls, all_results>>
    ELSE SP_Collect(resp.page) /\ UNCHANGED inter_posts

\* A handler that looks for the interchange page before the INVALID marker
SP_OnInitialInterchangeFirst(resp) ==
    IF Raises(resp) THEN SP_Continue
    ELSE IF IsInterchangePage(resp.page)
    THEN Resubmit(resp.page, "sp_await_interchange") /\ UNCHANGED <<i, parse_calls, all_results>>
    ELSE IF IsInvalid(resp.page) THEN SP_Continue
    ELSE SP_Collect(resp.page) /\ UNCHANGED inter_posts

\* Lines 378-394: what search_parts does with the answer to the initial POST
SP_OnInitial(resp) ==
    IF Raises(resp) THEN SP_Continue
    ELSE IF IsInvalid(resp.page) THEN SP_Continue
    ELSE IF IsInterchangePage(resp.page)
    THEN Resubmit(resp.page, "sp_await_interchange") /\ UNCHANGED <<i, parse_calls, all_results>>
    ELSE SP_Collect(resp.page) /\ UNCHANGED inter_posts

SP_Initial ==
    /\ pc = "sp_await_initial"
    /\ \E resp \in SearchResponses : response' = resp /\ SP_OnInitial(resp)
    /\ UNCHANGED <<inputs, hidden_fields, data, gets, initial_posts, search_term,
                   result, rows>>

\* A handler that selects again when the second answer is an interchange page
SP_OnInterchangeAgain(resp) ==
    IF Raises(resp) THEN Abort /\ UNCHANGED <<i, inter_posts, parse_calls, all_results>>
    ELSE IF IsInterchangePage(resp.page)
    THEN Resubmit(resp.page, "sp_await_interchange") /\ UNCHANGED <<i, parse_calls, all_results>>
    ELSE SP_Collect(resp.page) /\ UNCHANGED inter_posts

\* Lines 133-135 and 391-394: what search_parts does with the answer to the
\* interchange POST; nothing catches the exception of a failed one
SP_OnInterchange(resp) ==
    IF Raises(resp) THEN Abort /\ UNCHANGED <<i, inter_posts, parse_calls, all_results>>
    ELSE SP_Collect(resp.page) /\ UNCHANGED inter_posts

SP_Interchange ==
    /\ pc = "sp_await_interchange"
    /\ \E resp \in InterchangeResponses : response' = resp /\ SP_OnInterchange(resp)
    /\ UNCHANGED <<inputs, hidden_fields, data, gets, initial_posts, search_term,
                   result, rows>>

\* Line 396
SP_Return ==
    /\ pc = "sp_loop" /\ i > Len(parts)
    /\ pc' = "done"
    /\ UNCHANGED <<inputs, i, hidden_fields, request, response, data, gets,
                   initial_posts, inter_posts, parse_calls, all_results,
                   search_term, result, rows>>

-----------------------------------------------------------------------------
(* search_single_part                                                      *)

\* Where search_single_part returns to: the --unpriced loop, or its caller
Returned == IF entry = "unpriced" THEN "u_row" ELSE "done"

\* Lines 280-285
SSP_Start ==
    /\ pc = "ssp_start"
    /\ IF NeedsHomepage(hidden_fields)
       THEN FetchHomepage("ssp_await_home")
       ELSE /\ pc' = "ssp_post"
            /\ UNCHANGED <<inputs, i, hidden_fields, request, response, data, gets,
                           initial_posts, inter_posts, parse_calls, all_results,
                           search_term, result, rows>>

\* Line 285: the answer to the GET
SSP_Home == pc = "ssp_await_home" /\ Bootstrapped("ssp_post")

\* Lines 287-300
SSP_Submit == pc = "ssp_post" /\ Submit(search_term, "ssp_await_initial")

\* Lines 304 and 309: the empty summary is returned
SSP_ReturnEmpty ==
    /\ result' = EmptySummary(search_term)
    /\ pc' = Returned /\ request' = NoRequest
    /\ UNCHANGED <<inter_posts, parse_calls>>

\* Lines 312-342: the summary of the page's listings is returned
SSP_ReturnSummary(soup) ==
    /\ parse_calls' = parse_calls + 1
    /\ result' = Summarize(search_term, _parse_results_table(soup, search_term))
    /\ pc' = Returned /\ request' = NoRequest

\* Lines 299-342: what search_single_part does with the answer to the initial
\* POST
SSP_OnInitial(resp) ==
    IF Raises(resp) THEN SSP_ReturnEmpty
    ELSE IF IsInvalid(resp.page) THEN SSP_ReturnEmpty
    ELSE IF IsInterchangePage(resp.page)
    THEN Resubmit(resp.page, "ssp_await_interchange") /\ UNCHANGED <<result, parse_calls>>
    ELSE SSP_ReturnSummary(resp.page) /\ UNCHANGED inter_posts

SSP_Initial ==
    /\ pc = "ssp_await_initial"
    /\ \E resp \in SearchResponses : response' = resp /\ SSP_OnInitial(resp)
    /\ UNCHANGED <<inputs, i, hidden_fields, data, gets, initial_posts,
                   all_results, search_term, rows>>

\* Lines 133-135 and 311-342: what search_single_part does with the answer to
\* the interchange POST; nothing catches the exception of a failed one
SSP_OnInterchange(resp) ==
    IF Raises(resp) THEN Abort /\ UNCHANGED <<result, inter_posts, parse_calls>>
    ELSE SSP_ReturnSummary(resp.page) /\ UNCHANGED inter_posts

SSP_Interchange ==
    /\ pc = "ssp_await_interchange"
    /\ \E resp \in InterchangeResponses : response' = resp /\ SSP_OnInterchange(resp)
    /\ UNCHANGED <<inputs, i, hidden_fields, data, gets, initial_posts,
                   all_results, search_term, rows>>

-----------------------------------------------------------------------------
(* main --unpriced, from the session bootstrap on                          *)

\* The VIN read from the selected Pinnacle row
SelectedVin == "WAUFFAFL5DN012345"

\* f"${x:.2f}"
FormatMoney(x) ==
    LET q == Cents(x)
        cents == q % 100
    IN  "$" \o ToString(q \div 100) \o "." \o
            (IF cents < 10 THEN "0" ELSE "") \o ToString(cents)

\* Lines 230-233
U_Start == entry = "unpriced" /\ pc = "start" /\ FetchHomepage("u_await_home")

\* Line 233: the answer to the GET; an exception ends main
U_Home == pc = "u_await_home" /\ Bootstrapped("u_loop")

\* Lines 236-255: the search term of the next part; search_single_part is
\* called with the shared session and hidden fields when the term is non-empty
U_NextPart ==
    /\ pc = "u_loop" /\ i <= Len(parts)
    /\ LET part == parts[i]
           raw_term == IF part.category # "" THEN part.category ELSE part.part_name
       IN  search_term' = IF raw_term # "" THEN _clean_search_term(raw_term) ELSE ""
    /\ IF search_term' # ""
       THEN pc' = "ssp_start" /\ UNCHANGED result
       ELSE /\ result' = [avg_price |-> None, low_price |-> None, listing_count |-> 0]
            /\ pc' = "u_row"
    /\ UNCHANGED <<inputs, i, hidden_fields, request, response, data, gets,
                   initial_posts, inter_posts, parse_calls, all_results, rows>>

\* Lines 273-287: the export row of a part
ExportRow(part, term, res) ==
    [vin |-> SelectedVin,
     year |-> vehicle.year, make |-> vehicle.make, model |-> vehicle.model,
     stock_num |-> part.stock_num,
     hollander |-> part.hollander,
     part_name |-> IF term # "" THEN term
                   ELSE SubSeq(part.description, 1,
                               IF Len(part.description) < 60 THEN Len(part.description) ELSE 60),
     grade |-> part.grade,
     location |-> part.location,
     avg_price |-> IF res.avg_price # None THEN FormatMoney(res.avg_price) ELSE "",
     low_price |-> IF res.low_price # None THEN FormatMoney(res.low_price) ELSE "",
     listing_count |-> res.listing_count,
     notes |-> IF term = "" THEN "Description unclear - manual review"
               ELSE IF res.listing_count = 0 THEN "No Car-Part listings"
               ELSE ""]

\* Lines 257-287: the result is printed and the export row appended.  Lines
\* 259-260 format avg_price and low_price with :.2f whenever listing_count is
\* not zero, which raises TypeError on None.
U_Row ==
    /\ pc = "u_row"
    /\ IF result.listing_count # 0 /\ (result.avg_price = None \/ result.low_price = None)
       THEN pc' = "raised" /\ UNCHANGED <<rows, i>>
       ELSE /\ rows' = Append(rows, ExportRow(parts[i], search_term, result))
            /\ i' = i + 1
            /\ pc' = "u_loop"
    /\ UNCHANGED <<inputs, hidden_fields, request, response, data, gets,
                   initial_posts, inter_posts, parse_calls, all_results,
                   search_term, result>>

\* Lines 289-293
U_Export ==
    /\ pc = "u_loop" /\ i > Len(parts)
    /\ pc' = "done"
    /\ UNCHANGED <<inputs, i, hidden_fields, request, response, data, gets,
                   initial_posts, inter_posts, parse_calls, all_results,
                   search_term, result, rows>>

-----------------------------------------------------------------------------
(* main: the VIN run                                                       *)

UpperCh(c) == IF c \in Lowers THEN CHOOSE u \in Uppers : LowerCh(u) = c ELSE c

\* Python's str.upper()
RECURSIVE Upper(_)
Upper(s) == IF s = "" THEN "" ELSE UpperCh(Ch(s, 1)) \o Upper(SubSeq(s, 2, Len(s)))

\* The characters of VIN_PATTERN: [A-HJ-NPR-Z0-9]
VinChars == (Uppers \ {"I", "O", "Q"}) \cup Digits

\* pinnacle_reader.validate_vin: VIN_PATTERN.match(vin.upper().strip())
validate_vin(vin) ==
    LET v == Strip(Upper(vin))
    IN  Len(v) = 17 /\ \A k \in 1..17 : Ch(v, k) \in VinChars

\* list.remove(x): the list without the first element equal to x
RemoveFirst(xs, x) ==
    LET k == Min({j \in 1..Len(xs) : xs[j] = x})
    IN  SubSeq(xs, 1, k - 1) \o SubSeq(xs, k + 1, Len(xs))

\* A dict whose key order matters is the sequence of its <<key, value>> pairs
\* in insertion order.
Keys(od) == [k \in 1..Len(od) |-> od[k][1]]

KeySet(od) == {od[k][1] : k \in 1..Len(od)}

\* od.get(key, default)
Val(od, key, default) ==
    IF key \in KeySet(od) THEN od[CHOOSE k \in 1..Len(od) : od[k][1] = key][2] ELSE default

\* The keys of a listing in the order of the dict literal of
\* _parse_results_table
ListingKeys ==
    <<"part_name", "year", "description", "grade", "stock_num", "price", "vendor",
      "location", "phone", "distance_miles">>

\* row.update(part): an existing key keeps its place and takes the value of
\* `part`, the other keys of `part` are appended in their order
OdUpdate(od, part) ==
    [k \in 1..Len(od) |-> IF od[k][1] \in DOMAIN part THEN <<od[k][1], part[od[k][1]]>>
                          ELSE od[k]]
        \o SelectSeq([k \in 1..Len(ListingKeys) |-> <<ListingKeys[k], part[ListingKeys[k]]>>],
                     LAMBDA kv : kv[1] \notin KeySet(od))

\* Lines 115-122 and 129-135: the vehicle part of a row
VehicleRow(vin, veh) ==
    <<<<"vin", vin>>, <<"year", Get(veh, "year", "")>>, <<"make", Get(veh, "make", "")>>,
      <<"model", Get(veh, "model", "")>>, <<"trim", Get(veh, "trim", "")>>,
      <<"engine", Get(veh, "engine", "")>>>>

\* Lines 128-141: the row of a vehicle without parts
PlaceholderRow(vin, veh) ==
    VehicleRow(vin, veh)
        \o <<<<"part_name", "">>, <<"price", "">>, <<"vendor", "">>, <<"location", "">>,
             <<"grade", "">>>>

\* A merge in which the vehicle's fields are laid over the listing's
ProcessRowsVehicleWins(vin, veh, found) ==
    IF found = <<>> THEN <<PlaceholderRow(vin, veh)>>
    ELSE [k \in 1..Len(found) |->
             LET merged == OdUpdate(VehicleRow(vin, veh), found[k])
             IN  [j \in 1..Len(merged) |->
                     <<merged[j][1], Val(VehicleRow(vin, veh), merged[j][1], merged[j][2])>>]]

\* A process_vin without the placeholder row
ProcessRowsNoPlaceholder(vin, veh, found) ==
    [k \in 1..Len(found) |-> OdUpdate(VehicleRow(vin, veh), found[k])]

\* Lines 112-144: the rows process_vin returns for the listings found
ProcessRows(vin, veh, found) ==
    IF found = <<>> THEN <<PlaceholderRow(vin, veh)>>
    ELSE [k \in 1..Len(found) |-> OdUpdate(VehicleRow(vin, veh), found[k])]

\* The values of a record under the columns of the header, '' for a missing one
Record(row, fieldnames) == [j \in 1..Len(fieldnames) |-> Val(row, fieldnames[j], "")]

\* export_csv, lines 58-66: nothing for an empty list; otherwise the header is
\* the keys of the first row and DictWriter writes the rows in order, raising
\* ValueError at the first row with a key that is not in the header
export_csv(rs) ==
    IF rs = <<>> THEN [raised |-> FALSE, file |-> None]
    ELSE LET fieldnames == Keys(rs[1])
             extra == {k \in 1..Len(rs) : ~(KeySet(rs[k]) \subseteq KeySet(rs[1]))}
             written == IF extra = {} THEN rs ELSE SubSeq(rs, 1, Min(extra) - 1)
         IN  [raised |-> extra # {},
              file |-> [kind |-> "csv", header |-> fieldnames,
                        records |-> [k \in 1..Len(written) |-> Record(written[k], fieldnames)]]]

\* export_excel, lines 73-86: nothing for an empty list; otherwise one sheet
\* with the keys of the first row and row.get(k, '') of every row
export_excel(rs) ==
    IF rs = <<>> THEN [raised |-> FALSE, file |-> None]
    ELSE LET fieldnames == Keys(rs[1])
         IN  [raised |-> FALSE,
              file |-> [kind |-> "excel",
                        sheets |-> <<[title |-> "Parts Results", header |-> fieldnames,
                                      records |-> [k \in 1..Len(rs) |-> Record(rs[k], fieldnames)]]>>]]

\* What vinmatchpro_decoder.decode may return
DecodedVehicles ==
    {[year |-> "2015", make |-> "Toyota", model |-> "Camry", trim |-> "LE", engine |-> "2.5L"],
     [year |-> "2019", make |-> "Mercedes-Benz", model |-> "GLE 450"]}

\* Lines 313-321: one step of `for vin in vins`, the list iterator advancing by
\* one position whether or not vins.remove(vin) shortened the list, then the
\* test of the list left
M_Validate ==
    /\ entry = "main" /\ pc = "m_validate"
    /\ IF vi <= Len(vins)
       THEN /\ vins' = IF validate_vin(vins[vi]) THEN vins ELSE RemoveFirst(vins, vins[vi])
            /\ vi' = vi + 1
            /\ pc' = pc
       ELSE /\ vins' = vins
            /\ vi' = 1
            /\ pc' = IF vins = <<>> THEN "m_exit" ELSE "m_vin"
    /\ UNCHANGED <<entry, vehicle, parts, site, output_format, file, i, hidden_fields,
                   request, response, data, gets, initial_posts, inter_posts,
                   parse_calls, all_results, search_term, result, rows>>

\* A decoding whose error is not caught and ends the run
M_DecodeUncaught ==
    /\ entry = "main" /\ pc = "m_vin" /\ vi <= Len(vins)
    /\ \E decoded \in DecodedVehicles \cup {None} :
          IF decoded = None
          THEN pc' = "m_raised" /\ UNCHANGED <<vehicle, vi>>
          ELSE vehicle' = decoded /\ pc' = "m_search" /\ UNCHANGED vi
    /\ UNCHANGED <<entry, parts, site, vins, output_format, file, i, hidden_fields,
                   request, response, data, gets, initial_posts, inter_posts,
                   parse_calls, all_results, search_term, result, rows>>

\* Lines 96-103: process_vin decodes the next VIN; a decode error ends
\* process_vin with no rows
M_Decode ==
    /\ entry = "main" /\ pc = "m_vin" /\ vi <= Len(vins)
    /\ \E decoded \in DecodedVehicles \cup {None} :
          IF decoded = None
          THEN vi' = vi + 1 /\ pc' = pc /\ UNCHANGED vehicle
          ELSE vehicle' = decoded /\ pc' = "m_search" /\ UNCHANGED vi
    /\ UNCHANGED <<entry, parts, site, vins, output_format, file, i, hidden_fields,
                   request, response, data, gets, initial_posts, inter_posts,
                   parse_calls, all_results, search_term, result, rows>>

\* Lines 106-108: search_parts is called
M_Search == entry = "main" /\ pc = "m_search" /\ FetchHomepage("sp_await_home")

\* Lines 106-144 and 326-327: search_parts has returned its listings, or raised
\* and left no parts; the rows are built and added to all_rows, and the locals
\* of the call are gone
M_Rows ==
    /\ entry = "main" /\ pc \in {"done", "raised"}
    /\ rows' = rows \o ProcessRows(vins[vi], vehicle, IF pc = "done" THEN all_results ELSE <<>>)
    /\ vi' = vi + 1
    /\ pc' = "m_vin"
    /\ i' = 1 /\ hidden_fields' = None /\ request' = NoRequest /\ response' = None
    /\ data' = None /\ gets' = 0 /\ initial_posts' = [k \in 1..Len(parts) |-> 0]
    /\ inter_posts' = 0 /\ parse_calls' = 0 /\ all_results' = <<>> /\ search_term' = ""
    /\ UNCHANGED <<entry, vehicle, parts, site, vins, output_format, file, result>>

\* Lines 329-336: the export of all_rows in the chosen format
M_Export ==
    /\ entry = "main" /\ pc = "m_vin" /\ vi > Len(vins)
    /\ LET e == IF output_format = "excel" THEN export_excel(rows) ELSE export_csv(rows)
       IN  file' = e.file /\ pc' = IF e.raised THEN "m_raised" ELSE "m_done"
    /\ UNCHANGED <<entry, vehicle, parts, site, vins, vi, output_format, i, hidden_fields,
                   request, response, data, gets, initial_posts, inter_posts,
                   parse_calls, all_results, search_term, result, rows>>

-----------------------------------------------------------------------------
(* The specification                                                       *)

\* The state in which `e` is entered with the parts `ps`
Entered(e, ps) ==
    /\ entry = e
    /\ parts = ps
    /\ pc = IF e = "search_single_part" THEN "ssp_start" ELSE "start"
    /\ i = 1
    /\ hidden_fields = None
    /\ request = NoRequest
    /\ response = None
    /\ data = None
    /\ gets = 0
    /\ initial_posts = [k \in 1..Len(ps) |-> 0]
    /\ inter_posts = 0
    /\ parse_calls = 0
    /\ all_results = <<>>
    /\ search_term = IF e = "search_single_part" THEN ps[1] ELSE ""
    /\ result = None
    /\ rows = <<>>
    /\ vins = <<>>
    /\ vi = 1
    /\ output_format = "csv"
    /\ file = None

Init ==
    /\ vehicle \in Vehicles
    /\ site = [home |-> HomePages, search |-> SearchPages, interchange |-> SearchPages]
    /\ \E e \in Entries : \E ps \in PartsOf(e) : Entered(e, ps)

Next ==
    \/ SP_Start \/ SP_Home \/ SP_Submit \/ SP_Initial \/ SP_Interchange \/ SP_Return
    \/ SSP_Start \/ SSP_Home \/ SSP_Submit \/ SSP_Initial \/ SSP_Interchange
    \/ U_Start \/ U_Home \/ U_NextPart \/ U_Row \/ U_Export

Spec == Init /\ [][Next]_vars

\* search_single_part called on its own, with a marketplace answering the
\* initial POST with `first` and the interchange POST with `second`
SingleInit(first, second) ==
    /\ vehicle \in Vehicles
    /\ site = [home |-> HomePages, search |-> first, interchange |-> second]
    /\ Entered("search_single_part", <<DEFAULT_PARTS[1]>>)

SingleNext == SSP_Start \/ SSP_Home \/ SSP_Submit \/ SSP_Initial \/ SSP_Interchange

\* The interchange step over every generated interchange page
InterchangeInit ==
    SingleInit(InterchangeFamily \cup ResultPages,
               {<<Text("Search results"), CallTable>>, <<Form(<<Radio("userInterchange", "12345")>>)>>})

InterchangeSpec == InterchangeInit /\ [][SingleNext]_vars

\* Deduplication and statistics over every generated results table
DedupInit == SingleInit(TableFamily \cup InterchangePages, TableFamily)

DedupSpec == DedupInit /\ [][SingleNext]_vars

\* The price statistics over every generated run of prices, for one vehicle
\* and one home page
StatsInit ==
    /\ vehicle = [year |-> "2015", make |-> "Toyota", model |-> "Camry"]
    /\ site = [home |-> {<<Form(<<Hidden("token", "t1")>>)>>},
               search |-> PriceFamily \cup {<<Form(<<Radio("userInterchange", "12345")>>)>>},
               interchange |-> PriceFamily]
    /\ Entered("search_single_part", <<DEFAULT_PARTS[3]>>)

StatsSpec == StatsInit /\ [][SingleNext]_vars

\* The price field and the statistics over every generated run of price
\* cells, for one vehicle and one home page
PriceInit ==
    /\ vehicle = [year |-> "2015", make |-> "Toyota", model |-> "Camry"]
    /\ site = [home |-> {<<Form(<<Hidden("token", "t1")>>)>>},
               search |-> PriceCellFamily \cup {<<Form(<<Radio("userInterchange", "12345")>>)>>},
               interchange |-> PriceCellFamily]
    /\ Entered("search_single_part", <<DEFAULT_PARTS[2]>>)

PriceSpec == PriceInit /\ [][SingleNext]_vars

BatchNext == SP_Start \/ SP_Home \/ SP_Submit \/ SP_Initial \/ SP_Interchange \/ SP_Return

\* search_parts for one part over every generated run of tables, for one
\* vehicle and one home page
TablesInit ==
    /\ vehicle = [year |-> "2015", make |-> "Toyota", model |-> "Camry"]
    /\ site = [home |-> {<<Form(<<Hidden("token", "t1")>>)>>},
               search |-> PageFamily \cup {<<Form(<<Radio("userInterchange", "12345")>>)>>},
               interchange |-> PageFamily]
    /\ Entered("search_parts", <<DEFAULT_PARTS[1]>>)

TablesSpec == TablesInit /\ [][BatchNext]_vars

\* Most VINs on the command line
MaxVins == 2

\* VINs as typed: valid, valid in lower case with a space, one character
\* short, with a letter O
RawVins ==
    {"1HGCM82633A004352", " waUFFAFL5DN012345", "1HGCM82633A00435", "1HGCM82633A0O4352"}

\* The pages of the marketplace in the VIN run
MainSite ==
    [home |-> {<<Form(<<Hidden("token", "t1")>>)>>},
     search |-> {<<Text("Search results"), MixedTable>>, <<Text("No parts found")>>,
                 <<Form(<<Radio("userInterchange", "12345")>>)>>},
     interchange |-> {<<Text("Search results"), CallTable>>}]

\* main with --vins (one VIN: --vin, or the VIN read from Pinnacle): line 298
\* has upper-cased and stripped the arguments
MainInit ==
    /\ entry = "main"
    /\ \E raw \in SeqsOf(RawVins, 0, MaxVins) :
          vins = [k \in 1..Len(raw) |-> Strip(Upper(raw[k]))]
    /\ vi = 1
    /\ output_format \in {"csv", "excel"}
    /\ file = None
    /\ vehicle = None
    /\ parts = <<DEFAULT_PARTS[1]>>
    /\ site = MainSite
    /\ pc = "m_validate"
    /\ i = 1
    /\ hidden_fields = None
    /\ request = NoRequest
    /\ response = None
    /\ data = None
    /\ gets = 0
    /\ initial_posts = <<0>>
    /\ inter_posts = 0
    /\ parse_calls = 0
    /\ all_results = <<>>
    /\ search_term = ""
    /\ result = None
    /\ rows = <<>>

MainNext ==
    \/ M_Validate \/ M_Decode \/ M_Search \/ M_Rows \/ M_Export
    \/ SP_Home \/ SP_Submit \/ SP_Initial \/ SP_Interchange \/ SP_Return

MainSpec == MainInit /\ [][MainNext]_vars

-----------------------------------------------------------------------------
(* Properties                                                              *)

IsPost(kind) == request.method = "POST" /\ request.kind = kind

AwaitingHome == pc \in {"sp_await_home", "ssp_await_home", "u_await_home"}

\* The summary of a search without listings
NoListings == [part_name |-> search_term, avg_price |-> None, low_price |-> None,
               listing_count |-> 0]

\* C1: when the initial POST of a part fails, search_parts adds no listing for
\* the part, keeps those collected so far and moves on to the next part, and
\* search_single_part returns the summary without listings; a search_parts
\* that returns has posted the search of every part of its list.
C1_FailedInitialPostSkipsPart ==
    /\ [][/\ (pc = "sp_await_initial" /\ ~response'.ok) =>
                (pc' = "sp_loop" /\ i' = i + 1 /\ all_results' = all_results
                    /\ request' = NoRequest)
          /\ (pc = "ssp_await_initial" /\ ~response'.ok) =>
                (pc' = Returned /\ result' = NoListings /\ request' = NoRequest)]_vars
    /\ [](entry = "search_parts" /\ pc = "done" =>
            \A k \in 1..Len(parts) : initial_posts[k] = 1)

\* The first part's POST has failed and search_parts stands before the second
C1_Witness ==
    /\ entry = "search_parts" /\ pc = "sp_loop" /\ i = 2 /\ Len(parts) >= 2
    /\ response # None /\ ~response.ok
    /\ initial_posts[1] = 1 /\ all_results = <<>>

\* C2: a failed interchange POST is handled like a failed initial POST: the
\* part yields nothing, the listings collected so far are kept, the next part
\* is searched and search_single_part returns the summary without listings.
C2_FailedInterchangePostSkipsPart ==
    [][/\ (pc = "sp_await_interchange" /\ ~response'.ok) =>
             (pc' = "sp_loop" /\ i' = i + 1 /\ all_results' = all_results)
       /\ (pc = "ssp_await_interchange" /\ ~response'.ok) =>
             (pc' = Returned /\ result' = NoListings)]_vars

C4_InterchangePayload ==
    IsPost("interchange") =>
        LET page == response.page
            payload == request.data
            fields == FindForm(page).inputs
            named == {k \in 1..Len(fields) :
                         Get(fields[k], "type", "") = "hidden" /\ Get(fields[k], "name", "") # ""}
            names == {fields[k].name : k \in named}
            LastOf(n) == fields[Max({k \in named : fields[k].name = n})]
            radios == FindRadios(page)
            usable == {k \in 1..Len(radios) : Get(radios[k], "value", "") \notin {"", "None"}}
            picked == radios[Min(usable)]
            picked_names == IF usable = {} THEN {}
                            ELSE {Get(picked, "name", "userInterchange")}
        IN  /\ DOMAIN payload = DOMAIN data \cup names \cup picked_names
            /\ \A n \in picked_names : payload[n] = picked.value /\ payload[n] # "None"
            /\ \A n \in names \ picked_names : payload[n] = Get(LastOf(n), "value", "")
            /\ \A n \in DOMAIN data \ (names \cup picked_names) : payload[n] = data[n]

\* The page offers the radios "None" and "12345" and hidden fields that do not
\* echo userDate: "12345" is posted along with the original userDate
C4_Witness ==
    /\ IsPost("interchange")
    /\ Len(FindRadios(response.page)) >= 2
    /\ Get(FindRadios(response.page)[1], "value", "") = "None"
    /\ Get(FindRadios(response.page)[2], "value", "") = "12345"
    /\ request.data["userInterchange"] = "12345"
    /\ "dbModel" \in DOMAIN request.data
    /\ request.data["userDate"] = vehicle.year

\* C5: per part one initial POST and at most one interchange POST are sent; a
\* failed POST is followed by no other POST for the part; the answer to the
\* interchange POST is handed to the table extraction whatever it holds.
C5_NoRetryNoThirdPost ==
    /\ [](/\ \A k \in 1..Len(parts) : initial_posts[k] <= 1
          /\ inter_posts <= 1
          /\ entry = "search_parts" => \A k \in 1..Len(parts) : k < i => initial_posts[k] = 1
          /\ (pc \in {"ssp_await_initial", "ssp_await_interchange"}
                \/ (pc = "u_row" /\ search_term # "")
                \/ (entry = "search_single_part" /\ pc = "done")) => initial_posts[i] = 1)
    /\ [][/\ (pc \in {"sp_await_initial", "ssp_await_initial", "sp_await_interchange",
                      "ssp_await_interchange"} /\ ~response'.ok) =>
                (request' = NoRequest /\ initial_posts' = initial_posts
                    /\ inter_posts' = inter_posts)
          /\ (pc \in {"sp_await_interchange", "ssp_await_interchange"} /\ response'.ok) =>
                /\ request' = NoRequest /\ inter_posts' = inter_posts /\ parse_calls' = 1
                /\ pc = "sp_await_interchange" =>
                      all_results' = all_results
                                        \o _parse_results_table(response'.page, search_term)
                /\ pc = "ssp_await_interchange" =>
                      result' = Summarize(search_term,
                                          _parse_results_table(response'.page, search_term))]_vars

\* The interchange POST was answered by another interchange page, which was
\* handed to the extraction without a third POST
C5_Witness ==
    /\ entry = "search_parts" /\ pc = "sp_loop"
    /\ inter_posts = 1 /\ parse_calls = 1 /\ request = NoRequest
    /\ response # None /\ response.ok /\ IsInterchangePage(response.page)

\* C6: the home page is fetched once per batch and before any search POST;
\* search_single_part fetches nothing when it is given hidden fields, an empty
\* mapping included, and the --unpriced loop keeps the fields it fetched.
C6_HomepageFetchedOnce ==
    /\ [](/\ gets <= 1
          /\ (request.method = "POST" \/ \E k \in 1..Len(parts) : initial_posts[k] > 0) => gets = 1
          /\ pc = "done" => gets = 1)
    /\ [][/\ (pc = "ssp_start" /\ hidden_fields # None) => (gets' = gets /\ request' = request)
          /\ (entry = "unpriced" /\ hidden_fields # None) => hidden_fields' = hidden_fields]_vars

\* The second searched part of an --unpriced run is posted with the empty
\* mapping of hidden fields after a single GET
C6_Witness ==
    /\ entry = "unpriced" /\ pc = "ssp_await_initial" /\ i = 2
    /\ hidden_fields = EmptyDict
    /\ initial_posts[1] = 1 /\ initial_posts[2] = 1 /\ gets = 1

\* The explicit fields as requested
RequestedFields ==
    [userDate |-> vehicle.year,
     userModel |-> _normalize_for_carpart(vehicle.make, vehicle.model),
     userPart |-> search_term, userLocation |-> "All States",
     userPreference |-> "zip", userZip |-> ConfigZip]

\* C7 as claimed: every initial POST carries each explicit field with the
\* requested value and each hidden field of the home page.
C7_ExplicitFieldsAlwaysAsRequested ==
    IsPost("initial") =>
        /\ \A f \in DOMAIN RequestedFields :
              f \in DOMAIN request.data /\ request.data[f] = RequestedFields[f]
        /\ \A f \in DOMAIN hidden_fields :
              f \in DOMAIN request.data /\ request.data[f] = hidden_fields[f]

\* C7 as amended: every initial POST carries each hidden field of the home
\* page, and each explicit field with the requested value unless a hidden
\* field has its name; nothing else is in it.
C7_HiddenFieldsOverExplicit ==
    IsPost("initial") =>
        /\ DOMAIN request.data = DOMAIN RequestedFields \cup DOMAIN hidden_fields
        /\ \A f \in DOMAIN hidden_fields : request.data[f] = hidden_fields[f]
        /\ \A f \in DOMAIN RequestedFields \ DOMAIN hidden_fields :
              request.data[f] = RequestedFields[f]

\* The home page had a hidden field named userZip, posted in place of the zip
C7_Witness ==
    /\ IsPost("initial")
    /\ "userZip" \in DOMAIN hidden_fields
    /\ request.data["userZip"] = hidden_fields["userZip"]
    /\ request.data["userZip"] # ConfigZip
    /\ request.data["userDate"] = vehicle.year

\* C8: a failed fetch of the home page ends search_parts with the exception:
\* no POST was sent, none is sent afterwards, no listing is returned.
C8_FailedBootstrapAborts ==
    /\ [][/\ (pc = "sp_await_home" /\ ~response'.ok) => pc' = "raised"
          /\ pc # "raised"]_vars
    /\ [](entry = "search_parts" /\ pc = "raised" /\ hidden_fields = None =>
            /\ \A k \in 1..Len(parts) : initial_posts[k] = 0
            /\ request = NoRequest /\ all_results = <<>>)

\* search_parts was left by the exception of the failed GET
C8_Witness ==
    /\ entry = "search_parts" /\ pc = "raised" /\ hidden_fields = None
    /\ response # None /\ ~response.ok /\ gets = 1 /\ Len(parts) = MaxParts

\* C9 as claimed: a home page without a form makes the bootstrap fail.
C9_NoFormAborts ==
    [][(AwaitingHome /\ response'.ok /\ FindForm(response'.page) = None) =>
          pc' = "raised"]_vars

\* C9 as amended: a home page without a form gives an empty mapping of hidden
\* fields and the run goes on; the searches are posted with exactly the
\* explicit fields.
C9_NoFormGivesNoHiddenFields ==
    /\ [][(AwaitingHome /\ response'.ok /\ FindForm(response'.page) = None) =>
             (pc' \in {"sp_loop", "ssp_post", "u_loop"} /\ hidden_fields' = EmptyDict)]_vars
    /\ [](IsPost("initial") /\ hidden_fields = EmptyDict =>
             /\ DOMAIN request.data = DOMAIN RequestedFields
             /\ \A f \in DOMAIN RequestedFields : request.data[f] = RequestedFields[f])

\* search_parts stands before its first part after a home page without form
C9_Witness ==
    /\ entry = "search_parts" /\ pc = "sp_loop" /\ i = 1 /\ Len(parts) >= 1
    /\ initial_posts[1] = 0 /\ gets = 1
    /\ response # None /\ response.ok /\ FindForm(response.page) = None
    /\ hidden_fields = EmptyDict

RECURSIVE SumPrices(_, _)
SumPrices(listings, ks) ==
    IF ks = {} THEN FloatZero
    ELSE FloatAdd(SumPrices(listings, ks \ {Max(ks)}), ListingPrice(listings[Max(ks)]))

\* C10: of the listings extracted, search_single_part keeps for each (vendor,
\* stock_num) the first listing and drops the later ones, in the original
\* order; the count is the number of listings kept and only their prices
\* enter the average and the minimum.
C10_DedupKeepsFirst ==
    (pc = "done" /\ parse_calls = 1) =>
        LET listings == _parse_results_table(response.page, search_term)
            unique == Deduplicate(listings)
            Key(l) == <<l.vendor, l.stock_num>>
            firsts == {k \in 1..Len(listings) :
                          \A j \in 1..(k - 1) : Key(listings[j]) # Key(listings[k])}
            Nth(m) == CHOOSE k \in firsts : Cardinality({j \in firsts : j <= k}) = m
            priced == {k \in firsts : ListingPrice(listings[k]) # None}
        IN  /\ Len(unique) = Cardinality(firsts)
            /\ \A m \in 1..Len(unique) : unique[m] = listings[Nth(m)]
            /\ result.listing_count = Cardinality(firsts)
            /\ priced = {} => (result.avg_price = None /\ result.low_price = None)
            /\ priced # {} =>
                  /\ result.avg_price = FloatDiv(SumPrices(listings, priced), Cardinality(priced))
                  /\ \E k \in priced :
                        /\ result.low_price = ListingPrice(listings[k])
                        /\ \A j \in priced :
                              ~FloatLess(ListingPrice(listings[j]), result.low_price)

\* Two listings of one (vendor, stock_num) with different prices were
\* extracted, followed by a listing of another pair
C10_Witness ==
    /\ pc = "done" /\ parse_calls = 1
    /\ LET listings == _parse_results_table(response.page, search_term)
       IN  /\ Len(listings) = 3
           /\ ListingKey(listings[1]) = ListingKey(listings[2])
           /\ listings[1].price # listings[2].price
           /\ ListingPrice(listings[2]) # None
           /\ ListingKey(listings[3]) # ListingKey(listings[1])
           /\ result.listing_count = 2
           /\ result.low_price = ListingPrice(listings[1])

\* The listings extracted from the page search_single_part has returned on
Extracted == _parse_results_table(response.page, search_term)

\* search_single_part has returned the summary of an extracted page
Summarized == pc = "done" /\ parse_calls = 1

\* The listings that are the first of their (vendor, stock_num), and those of
\* them whose price text holds a number
Firsts(listings) ==
    {k \in 1..Len(listings) :
        \A j \in 1..(k - 1) : ListingKey(listings[j]) # ListingKey(listings[k])}

Priced(listings) == {k \in Firsts(listings) : ListingPrice(listings[k]) # None}

\* C11: listing_count is the number of distinct (vendor, stock_num) pairs
\* among the extracted listings, whatever the number of them with a price.
C11_CountIsDistinctPairs ==
    Summarized =>
        result.listing_count
            = Cardinality({ListingKey(Extracted[k]) : k \in 1..Len(Extracted)})

\* Three listings of two pairs, one of the pairs without a price
C11_Witness ==
    /\ Summarized /\ Len(Extracted) = 3
    /\ result.listing_count = 2
    /\ Cardinality(Priced(Extracted)) = 1

\* C12: avg_price is None exactly when no kept listing has a price; otherwise
\* it is the sum of the prices of the kept listings divided by their number:
\* listings without a price and dropped duplicates enter neither.
C12_AvgIsMeanOfPriced ==
    Summarized =>
        LET priced == Priced(Extracted)
        IN  /\ result.avg_price = None <=> priced = {}
            /\ priced # {} =>
                  result.avg_price = FloatDiv(SumPrices(Extracted, priced), Cardinality(priced))

\* A priced listing, its duplicate and a listing without a price: the average
\* is the price of the first
C12_Witness ==
    /\ Summarized /\ Len(Extracted) = 3
    /\ \E k \in 1..3 : k \notin Firsts(Extracted) /\ ListingPrice(Extracted[k]) # None
    /\ \E k \in Firsts(Extracted) : ListingPrice(Extracted[k]) = None
    /\ result.avg_price = ListingPrice(Extracted[1])
    /\ result.avg_price # None

C14_NoRepeatedPairPerPart ==
    (entry = "search_parts" /\ pc = "done") =>
        \A j, k \in 1..Len(all_results) :
            (j < k /\ all_results[j].part_name = all_results[k].part_name)
                => ListingKey(all_results[j]) # ListingKey(all_results[k])

\* C14 as amended: search_parts adds every listing extracted from a part's
\* results page to the list it returns, in the order of the table and with
\* the repeated (vendor, stock_num) pairs; only search_single_part
\* deduplicates.
C14_AllExtractedListingsReturned ==
    [][(pc \in {"sp_await_initial", "sp_await_interchange"} /\ parse_calls' = 1) =>
          all_results' = all_results \o _parse_results_table(response'.page, search_term)]_vars

\* search_parts has returned two listings of one part with the same pair and
\* different prices
C14_Witness ==
    /\ entry = "search_parts" /\ pc = "done"
    /\ \E j, k \in 1..Len(all_results) :
          /\ j < k
          /\ all_results[j].part_name = all_results[k].part_name
          /\ ListingKey(all_results[j]) = ListingKey(all_results[k])
          /\ all_results[j].price # all_results[k].price

\* C15: deduplicating the deduplicated listings returns them unchanged, in
\* the same order.
C15_DedupIdempotent ==
    Summarized => Deduplicate(Deduplicate(Extracted)) = Deduplicate(Extracted)

\* Three listings of one (vendor, stock_num) among the extracted ones, of which
\* deduplication kept one
C15_Witness ==
    /\ Summarized /\ Len(Extracted) = 3
    /\ \A k \in 1..3 : ListingKey(Extracted[k]) = ListingKey(Extracted[1])
    /\ Extracted[2].price # Extracted[1].price
    /\ Deduplicate(Extracted) = <<Extracted[1]>>
    /\ result.listing_count = 1

\* search_parts has returned after extracting from exactly one page
Collected == entry = "search_parts" /\ pc = "done" /\ parse_calls = 1

\* The header cell texts of a table as the lookup of line 176 sees them
HeaderKeys(t) == {Strip(Lower(CellText(t.rows[1][k]))) : k \in 1..Len(t.rows[1])}

\* A table qualifies: two rows or more, the marker in the header, the price
\* and the dealer column
QualifiesAsStated(t) ==
    /\ Len(t.rows) >= 2
    /\ \/ Contains(Lower(JoinTexts(HeaderTexts(t))), "yearpartmodel")
       \/ Contains(Lower(JoinTexts(HeaderTexts(t))), "usprice")
    /\ "usprice" \in HeaderKeys(t)
    /\ HeaderKeys(t) \cap {"dealer info", "dealerinfo"} # {}

\* The listings of the data rows of one table
ListingsOf(t, part) ==
    ParseRows(Tail(t.rows), HeaderTexts(t), BuildColIdx(HeaderTexts(t), 1, EmptyDict), part)

\* The listings of the first qualifying table among those numbered in `ks`
FirstQualifying(tables, ks, part) ==
    LET q == {k \in ks : QualifiesAsStated(tables[k])}
    IN  IF q = {} THEN <<>> ELSE ListingsOf(tables[Min(q)], part)

\* C16: the listings extracted from a page are those of its first qualifying
\* table (two rows or more, marker in the header, price and dealer columns)
\* and of no later table, also when that first table yields no listing.
C16_FirstQualifyingTableOnly ==
    Collected =>
        LET tables == FindTables(response.page)
        IN  all_results = FirstQualifying(tables, 1..Len(tables), parts[1])

\* The first qualifying table has no row wide enough, a later qualifying table
\* has listings, and nothing is returned
C16_Witness ==
    /\ Collected
    /\ LET tables == FindTables(response.page)
       IN  /\ Len(tables) = 2
           /\ QualifiesAsStated(tables[1]) /\ QualifiesAsStated(tables[2])
           /\ ListingsOf(tables[1], parts[1]) = <<>>
           /\ ListingsOf(tables[2], parts[1]) # <<>>
    /\ all_results = <<>>

\* The header passes the marker test and maps neither of the two columns
NeitherColumn(t) ==
    /\ Len(t.rows) >= 2
    /\ \/ Contains(Lower(JoinTexts(HeaderTexts(t))), "yearpartmodel")
       \/ Contains(Lower(JoinTexts(HeaderTexts(t))), "usprice")
    /\ HeaderKeys(t) \cap {"usprice", "dealer info", "dealerinfo"} = {}

\* C17: a table whose header has the marker but neither a price nor a dealer
\* column gives no listing and does not end the scan: what is returned is what
\* the page would give without that table.
C17_MarkerOnlyTableSkipped ==
    Collected =>
        LET tables == FindTables(response.page)
        IN  \A k \in 1..Len(tables) :
                NeitherColumn(tables[k]) =>
                    all_results = FirstQualifying(tables, (1..Len(tables)) \ {k}, parts[1])

\* A marker-only table with a data row comes first, and the listings of the
\* qualifying table after it are returned
C17_Witness ==
    /\ Collected
    /\ LET tables == FindTables(response.page)
       IN  /\ Len(tables) = 2
           /\ NeitherColumn(tables[1]) /\ Len(tables[1].rows[2]) >= Len(tables[1].rows[1])
           /\ QualifiesAsStated(tables[2])
           /\ all_results = ListingsOf(tables[2], parts[1])
    /\ all_results # <<>>

\* The tables of the page that qualify
QualifyingTables(tables) == {k \in 1..Len(tables) : QualifiesAsStated(tables[k])}

\* The data rows of a table that have a td cell for every header cell
WideRows(t) == {k \in 2..Len(t.rows) : Len(TdCells(t.rows[k])) >= Len(t.rows[1])}

\* The m-th smallest member of a set of numbers
Nth(S, m) == CHOOSE k \in S : Cardinality({j \in S : j <= k}) = m

PriceCell(k) == CellText(FindTables(response.page)[1].rows[k + 1][5])

\* The maximal runs "$" + digits, commas and dots of a text, as <<first, last>>
DollarRuns(text) ==
    {ab \in (1..Len(text)) \X (1..Len(text)) :
        /\ ab[1] < ab[2]
        /\ Ch(text, ab[1]) = "$"
        /\ \A j \in (ab[1] + 1)..ab[2] : Ch(text, j) \in PriceChars
        /\ ab[2] = Len(text) \/ Ch(text, ab[2] + 1) \notin PriceChars}

\* The price field of every extracted listing is the first dollar run of its
\* price cell, or the whole cell when there is none
PriceFieldsAsStated ==
    \A k \in 1..Len(Extracted) :
        LET cell == PriceCell(k)
            runs == DollarRuns(cell)
        IN  IF runs = {} THEN Extracted[k].price = cell
            ELSE \E ab \in runs :
                    /\ \A cd \in runs : ab[1] <= cd[1]
                    /\ Extracted[k].price = SubSeq(cell, ab[1], ab[2])

\* The extracted listings whose price cell holds no dollar run
NoDollarRun == {k \in 1..Len(Extracted) : DollarRuns(PriceCell(k)) = {}}

\* The statistics are those of the kept listings numbered in `ks`
StatsOver(ks) ==
    /\ result.listing_count = Cardinality(Firsts(Extracted))
    /\ result.avg_price = IF ks = {} THEN None
                          ELSE FloatDiv(SumPrices(Extracted, ks), Cardinality(ks))
    /\ result.low_price = None <=> ks = {}
    /\ ks # {} =>
          /\ \E k \in ks : result.low_price = ListingPrice(Extracted[k])
          /\ \A k \in ks : ~FloatLess(ListingPrice(Extracted[k]), result.low_price)

\* C19 as claimed: the price field is the first dollar run of the price cell,
\* or the raw cell text when there is none; a listing of the second kind is
\* counted but enters neither avg_price nor low_price.
C19_NoDollarRunNeverPriced ==
    Summarized => (PriceFieldsAsStated /\ StatsOver(Priced(Extracted) \ NoDollarRun))

\* The price text holds no digit
NoDigit(text) == \A j \in 1..Len(text) : Ch(text, j) \notin Digits

\* The price text is a number written without the dollar sign
BareNumber(text) ==
    /\ text # "" /\ Ch(text, 1) \in Digits
    /\ \A j \in 1..Len(text) : Ch(text, j) \in Digits \cup {"."}
    /\ Cardinality({j \in 1..Len(text) : Ch(text, j) = "."}) <= 1

\* C19: the price field is the first dollar run of the price cell, or the raw
\* cell text when there is none; every kept listing is counted; a raw text
\* without a digit ("$Call") enters neither avg_price nor low_price, a raw
\* text that is a number without the dollar sign enters both.
C19_PriceFieldAndStatistics ==
    Summarized =>
        /\ PriceFieldsAsStated
        /\ StatsOver(Priced(Extracted))
        /\ \A k \in NoDollarRun :
              /\ NoDigit(PriceCell(k)) => k \notin Priced(Extracted)
              /\ (BareNumber(PriceCell(k)) /\ k \in Firsts(Extracted)) => k \in Priced(Extracted)

\* "$125actual" gives "$125", "$Call" stays and is left out, "75.5" stays and
\* is averaged with the 125: three listings counted, average 100.25
C19_Witness ==
    /\ Summarized /\ Len(Extracted) = 3 /\ result.listing_count = 3
    /\ \E k \in 1..3 : PriceCell(k) = "$125actual" /\ Extracted[k].price = "$125"
    /\ \E k \in 1..3 : PriceCell(k) = "$Call" /\ Extracted[k].price = "$Call"
    /\ \E k \in 1..3 : PriceCell(k) = "75.5" /\ Extracted[k].price = "75.5"
    /\ result.avg_price = FloatOfHundredths(10025)
    /\ result.low_price = FloatOfHundredths(7550)

\* The step hands the page of the answer it receives to _parse_results_table
Extracting ==
    /\ pc \in {"sp_await_initial", "sp_await_interchange",
               "ssp_await_initial", "ssp_await_interchange"}
    /\ parse_calls' = parse_calls + 1

\* C20: when the page handed to the extraction has no qualifying table, the
\* extraction gives the empty list and nothing is raised: search_parts adds no
\* listing and goes on to the next part, search_single_part returns the
\* summary with avg_price None, low_price None and listing_count 0.
C20_NoQualifyingTableGivesNoListing ==
    [][(Extracting /\ QualifyingTables(FindTables(response'.page)) = {}) =>
          /\ _parse_results_table(response'.page, search_term) = <<>>
          /\ pc' # "raised"
          /\ entry = "search_parts" =>
                (all_results' = all_results /\ pc' = "sp_loop" /\ i' = i + 1)
          /\ entry # "search_parts" =>
                (pc' = Returned /\ result' = NoListings)]_vars

\* The first of two parts was answered with a page of three tables none of
\* which qualifies: no listing, and search_parts is at the second part
C20_Witness ==
    /\ entry = "search_parts" /\ Len(parts) = 2
    /\ pc = "sp_loop" /\ i = 2 /\ parse_calls = 1
    /\ response # None /\ response.ok
    /\ Len(FindTables(response.page)) = 3
    /\ QualifyingTables(FindTables(response.page)) = {}
    /\ all_results = <<>>

\* The records of the exported file
FileRecords(f) == IF f.kind = "csv" THEN f.records ELSE f.sheets[1].records

\* The header of the exported file
FileHeader(f) == IF f.kind = "csv" THEN f.header ELSE f.sheets[1].header

\* process_vin is about to decode vins[vi]
Decoding == entry = "main" /\ pc = "m_vin" /\ vi <= Len(vins)

SearchOver == entry = "main" /\ pc \in {"done", "raised"}

\* C22: when the search of a decoded VIN raises or returns no listing,
\* process_vin returns one row: the vin, the decoded year, make, model, trim
\* and engine ('' for an attribute the decoder did not give) and empty
\* part_name, price, vendor, location and grade.  Every decoded VIN adds at
\* least one row.
C22_PlaceholderRowWhenNoParts ==
    [][(SearchOver /\ pc' = "m_vin") =>
          /\ Len(rows') >= Len(rows) + 1
          /\ (pc = "raised" \/ all_results = <<>>) =>
                /\ Len(rows') = Len(rows) + 1
                /\ SubSeq(rows', 1, Len(rows)) = rows
                /\ LET row == rows'[Len(rows')]
                   IN  /\ Keys(row) = <<"vin", "year", "make", "model", "trim", "engine",
                                        "part_name", "price", "vendor", "location", "grade">>
                       /\ Val(row, "vin", None) = vins[vi]
                       /\ \A a \in {"year", "make", "model", "trim", "engine"} :
                             Val(row, a, None) = IF a \in DOMAIN vehicle THEN vehicle[a] ELSE ""
                       /\ \A f \in {"part_name", "price", "vendor", "location", "grade"} :
                             Val(row, f, None) = ""]_vars

\* The first VIN was decoded with trim and engine and its search gave nothing:
\* one row with the vehicle and empty part fields
C22_Witness ==
    /\ entry = "main" /\ pc = "m_vin" /\ vi = 2
    /\ Len(rows) = 1
    /\ Val(rows[1], "vin", "") = vins[1]
    /\ Val(rows[1], "year", "") = "2015" /\ Val(rows[1], "trim", "") = "LE"
    /\ Val(rows[1], "engine", "") = "2.5L"
    /\ Val(rows[1], "part_name", "x") = "" /\ Val(rows[1], "price", "x") = ""
    /\ "stock_num" \notin KeySet(rows[1])

\* main hands all_rows to the export
Exporting == entry = "main" /\ pc = "m_vin" /\ vi > Len(vins) /\ pc' # pc

\* C23: the export of an empty list writes no file; the export of any other
\* list returns after writing the keys of the first record as header and one
\* row per record in order, export_csv to a comma-separated file and
\* export_excel to a workbook of one sheet.
C23_ExportWritesHeaderAndEveryRecord ==
    [][Exporting =>
          IF rows = <<>> THEN file' = None /\ pc' = "m_done"
          ELSE /\ pc' = "m_done"
               /\ file'.kind = output_format
               /\ output_format = "excel" => Len(file'.sheets) = 1
               /\ FileHeader(file') = Keys(rows[1])
               /\ Len(FileRecords(file')) = Len(rows)
               /\ \A k \in 1..Len(rows) :
                     FileRecords(file')[k] = Record(rows[k], Keys(rows[1]))]_vars

C25_OnlyValidVinsProcessed ==
    /\ (entry = "main" /\ pc # "m_validate") =>
          \A k \in 1..Len(vins) : validate_vin(vins[k])
    /\ (entry = "main" /\ pc \in {"m_search", "sp_await_home", "sp_loop", "sp_await_initial",
                                  "sp_await_interchange", "done", "raised"}) =>
          validate_vin(vins[vi])

\* C26: in the --unpriced loop a part whose search counted listings but gave
\* no number (avg_price and low_price None) gets an export row with empty
\* avg_price and low_price and the listing count, and the loop goes on to the
\* next part.
C26_UnpricedListingsGiveEmptyPrices ==
    [][(entry = "unpriced" /\ pc = "u_row" /\ result.listing_count > 0
            /\ result.avg_price = None /\ result.low_price = None) =>
          /\ pc' = "u_loop" /\ i' = i + 1
          /\ Len(rows') = Len(rows) + 1
          /\ rows'[Len(rows')].avg_price = "" /\ rows'[Len(rows')].low_price = ""
          /\ rows'[Len(rows')].listing_count = result.listing_count]_vars

\* C27: every row process_vin returns carries the vin and the year, make,
\* model, trim and engine of the decoded vehicle, also a row built from a
\* listing: the listing's fields replace none of them.
C27_RowsKeepVehicleAttributes ==
    [][(SearchOver /\ pc' = "m_vin") =>
          \A k \in (Len(rows) + 1)..Len(rows') :
              /\ Val(rows'[k], "vin", None) = vins[vi]
              /\ \A a \in {"year", "make", "model", "trim", "engine"} :
                    Val(rows'[k], a, None) = IF a \in DOMAIN vehicle THEN vehicle[a] ELSE ""]_vars

\* C28: no row of all_rows has a key outside the keys of the first row,
\* whatever the order of VINs with and without parts, so export_csv never
\* raises and a written csv file has a record for every row.
C28_RowsFitTheFirstRowsKeys ==
    entry = "main" =>
        /\ \A k \in 1..Len(rows) : KeySet(rows[k]) \subseteq KeySet(rows[1])
        /\ pc # "m_raised"
        /\ (pc = "m_done" /\ file # None /\ output_format = "csv")
              => Len(file.records) = Len(rows)

\* The radio inputs of a page that have a value other than "" and "None"
UsableRadios(soup) ==
    {k \in 1..Len(FindRadios(soup)) : Get(FindRadios(soup)[k], "value", "") \notin {"", "None"}}

\* The names of the named hidden inputs of the first form of a page
HiddenNames(soup) ==
    {Get(inp, "name", "") : inp \in {FindForm(soup).inputs[k] : k \in
        {j \in 1..Len(FindForm(soup).inputs) :
            /\ Get(FindForm(soup).inputs[j], "type", "") = "hidden"
            /\ Get(FindForm(soup).inputs[j], "name", "") # ""}}}

\* C29: a page with a radio input and a form is resubmitted, also when none of
\* its radios has a usable value: the second POST is then sent with the
\* original payload overlaid with the hidden fields of the form and nothing
\* else.  A page with radios but no form, or without radios, is not
\* resubmitted: it is the page the listings are extracted from.
C29_ResubmitsWithoutUsableRadio ==
    [][(pc = "ssp_await_initial" /\ response'.ok /\ ~IsInvalid(response'.page)) =>
          LET page == response'.page
          IN  IF FindRadios(page) # <<>> /\ FindForm(page) # None
              THEN /\ inter_posts' = inter_posts + 1
                   /\ request'.method = "POST" /\ request'.kind = "interchange"
                   /\ parse_calls' = parse_calls
                   /\ UsableRadios(page) = {} =>
                         /\ DOMAIN request'.data = DOMAIN data \cup HiddenNames(page)
                         /\ \A n \in DOMAIN data \ HiddenNames(page) : request'.data[n] = data[n]
              ELSE /\ inter_posts' = inter_posts
                   /\ request' = NoRequest
                   /\ parse_calls' = parse_calls + 1
                   /\ result' = Summarize(search_term, _parse_results_table(page, search_term))]_vars

\* The page has a form with a hidden field and radios none of which has a
\* usable value: the second POST is in flight, with the hidden field and
\* without userInterchange
C29_Witness ==
    /\ IsPost("interchange")
    /\ FindRadios(response.page) # <<>> /\ UsableRadios(response.page) = {}
    /\ "dbModel" \in HiddenNames(response.page)
    /\ request.data["dbModel"] = "X1"
    /\ "userInterchange" \notin DOMAIN request.data
    /\ request.data["userPart"] = data["userPart"]

\* The header passes the marker test and maps exactly one of the two columns
OneColumnOnly(t) ==
    /\ Len(t.rows) >= 2
    /\ \/ Contains(Lower(JoinTexts(HeaderTexts(t))), "yearpartmodel")
       \/ Contains(Lower(JoinTexts(HeaderTexts(t))), "usprice")
    /\ ("usprice" \in HeaderKeys(t)) # (HeaderKeys(t) \cap {"dealer info", "dealerinfo"} # {})

\* C30: a table is taken as the results table only if its header maps both the
\* price and the dealer column: a table mapping exactly one of them gives no
\* listing and does not end the scan, and whenever listings are returned the
\* page has a table mapping both.
C30_BothColumnsRequired ==
    Collected =>
        LET tables == FindTables(response.page)
        IN  /\ \A k \in 1..Len(tables) :
                  OneColumnOnly(tables[k]) =>
                      all_results = FirstQualifying(tables, (1..Len(tables)) \ {k}, parts[1])
            /\ all_results # <<>> =>
                  \E k \in 1..Len(tables) :
                      /\ "usprice" \in HeaderKeys(tables[k])
                      /\ HeaderKeys(tables[k]) \cap {"dealer info", "dealerinfo"} # {}

\* A table with the dealer column only and a data row comes first, and the
\* listings of the qualifying table after it are returned
C30_Witness ==
    /\ Collected
    /\ LET tables == FindTables(response.page)
       IN  /\ Len(tables) = 2
           /\ OneColumnOnly(tables[1]) /\ "usprice" \notin HeaderKeys(tables[1])
           /\ Len(tables[1].rows[2]) >= Len(tables[1].rows[1])
           /\ QualifiesAsStated(tables[2])
           /\ all_results = ListingsOf(tables[2], parts[1])
    /\ all_results # <<>>

====
